---- MODULE Spec2Model ----
(***************************************************************************)
(* Model of autonix: the detection pipeline (src/detection) and the        *)
(* environment generator (src/generation).                                 *)
(*                                                                         *)
(* Text is modelled as a sequence of tokens.  A token is a one-character   *)
(* string or a whole word; the tokens are so chosen that two sequences the *)
(* model builds for the same kind of text (a key, a path, a command) are   *)
(* equal iff the strings they stand for are.                               *)
(***************************************************************************)
EXTENDS Integers, Sequences, FiniteSets, TLC

VARIABLES
    metadata,                   \* ProjectMetadata handed to generate_dev_flake
    fs,                         \* the files consulted while generating
    pc,                         \* position inside generate_dev_flake
    pos,                        \* index of the next command of collect_checks
    key_counts,                 \* collect_checks: key_counts
    grouped,                    \* collect_checks: grouped
    need_node,                  \* generate_dev_flake: need_node
    need_python,                \* generate_dev_flake: need_python
    required_package_managers,  \* generate_dev_flake: required_package_managers
    flake,                      \* the GeneratedFlake, once produced
    pm_job,                     \* resolve_task_command: the command to resolve
    pm_out,                     \* resolve_task_command: its result, once returned
    esc_in,                     \* escape_nix_string: input
    esc_out,                    \* escape_nix_string: out, once returned
    check,                      \* the CheckSpec a check script was built from
    script,                     \* the lines of the check script
    sh_pc,                      \* the line the shell is about to run
    sh_errexit,                 \* whether set -e is in force
    sh_status,                  \* "running", "failed" or "succeeded"
    sh_trace,                   \* the commands run so far and how each ended
    sentinel,                   \* whether $out/result exists
    tree,                       \* the directory tree detection runs on
    scope,                      \* DetectionScope
    self_root,                  \* DirectoryIterator::root
    run,                        \* which run of detect_with_scope is under way
    queue,                      \* DirectoryIterator::queue
    paths,                      \* detect_with_scope: paths, as collected so far
    results,                    \* the ProjectMetadata of the finished runs
    args,                       \* the arguments of the function being called
    ret                         \* what it returned, once it has

genVars == <<metadata, fs, pc, pos, key_counts, grouped, need_node, need_python,
             required_package_managers, flake>>
pmVars == <<pm_job, pm_out>>
escVars == <<esc_in, esc_out>>
shVars == <<check, script, sh_pc, sh_errexit, sh_status, sh_trace, sentinel>>
detVars == <<tree, scope, self_root, run, queue, paths, results>>

callVars == <<args, ret>>

vars == <<genVars, pmVars, escVars, shVars, detVars, callVars>>

\* the values of the variables of a part of the program that is not running
GenIdle ==
    /\ metadata = <<>> /\ pc = "idle" /\ pos = 0 /\ key_counts = <<>> /\ grouped = <<>>
    /\ need_node = FALSE /\ need_python = FALSE /\ required_package_managers = {}
    /\ flake = <<>>
PmIdle == pm_job = <<>> /\ pm_out = <<>>
EscIdle == esc_in = <<>> /\ esc_out = <<>>
ShIdle ==
    /\ check = <<>> /\ script = <<>> /\ sh_pc = 0 /\ sh_errexit = FALSE
    /\ sh_status = "idle" /\ sh_trace = <<>> /\ sentinel = FALSE
DetIdle ==
    /\ tree = <<>> /\ scope = "All" /\ self_root = <<>> /\ run = 0 /\ queue = <<>> /\ paths = <<>>
    /\ results = <<>>
CallIdle == args = <<>> /\ ret = <<>>

----------------------------------------------------------------------------
(* Bounds *)

MaxRunners == 2
MaxRunnersV == 1

----------------------------------------------------------------------------
(* Generic helpers *)

Some(x) == <<x>>
None == <<>>
IsSome(o) == Len(o) = 1
Unwrap(o) == o[1]

Range(s) == {s[i] : i \in 1..Len(s)}

RECURSIVE SumSeq(_)
SumSeq(s) == IF s = <<>> THEN 0 ELSE Head(s) + SumSeq(Tail(s))

IsPrefixOf(p, s) == Len(p) <= Len(s) /\ SubSeq(s, 1, Len(p)) = p

InjectiveSeqs(S, n) ==
    UNION {{s \in [1..k -> S] : \A i, j \in 1..k : i # j => s[i] # s[j]} : k \in 0..n}

----------------------------------------------------------------------------
(* Characters *)

UpperCase == {"TEST", "M"}
LowerAlnum == {"test", "build", "release", "u", "m", "w", "s", "p", "c", "x", "j", "g", "y",
               "0", "1", "2", "3", "4", "5", "6", "7", "8", "9"}

to_ascii_lowercase(ch) ==
    CASE ch = "TEST" -> "test"
      [] ch = "M" -> "m"
      [] OTHER -> ch

is_ascii_alphanumeric(ch) == ch \in LowerAlnum \cup UpperCase

\* The tokens that can occur in a check key, in ascending byte order of the
\* strings they stand for.  Runner names meet only each other (fifth token of
\* a key) and none is a prefix of another; no one-letter token is the first
\* letter of a word token, so the order of the tokens is the order of the
\* strings.
TokenOrder == <<"-", "0", "1", "2", "3", "4", "5", "6", "7", "8", "9",
                "build", "c", "cargo", "g", "generic", "golang", "gotask", "invoke",
                "j", "just", "m", "make", "nodejs", "npmscripts", "p", "python",
                "release", "rust", "s", "test", "u", "vite", "w", "x", "y">>

TokenRank(ch) == CHOOSE i \in 1..Len(TokenOrder) : TokenOrder[i] = ch

\* str::cmp on two keys: lexicographic, a proper prefix sorts first
RECURSIVE StrLess(_, _)
StrLess(a, b) ==
    IF b = <<>> THEN FALSE
    ELSE IF a = <<>> THEN TRUE
    ELSE IF Head(a) = Head(b) THEN StrLess(Tail(a), Tail(b))
    ELSE TokenRank(Head(a)) < TokenRank(Head(b))

\* usize formatted with {}: decimal digits, most significant first
RECURSIVE FormatUsize(_)
FormatUsize(n) ==
    LET digit == <<"0", "1", "2", "3", "4", "5", "6", "7", "8", "9">>[(n % 10) + 1]
    IN IF n < 10 THEN <<digit>> ELSE FormatUsize(n \div 10) \o <<digit>>

----------------------------------------------------------------------------
(* detection/language.rs, detection/task_runner.rs: what detection hands over *)

Languages == {"Go", "Python", "JavaScript", "Rust"}
NoLanguage == "NoLanguage"

Language_dir_name(l) ==
    CASE l = "Go" -> "golang"
      [] l = "Python" -> "python"
      [] l = "JavaScript" -> "nodejs"
      [] l = "Rust" -> "rust"

TEST_KEYWORDS == {"test", "spec", "jest", "mocha", "pytest"}
BUILD_KEYWORDS == {"build", "compile", "bundle", "package", "dist"}

\* the build keywords are looked for first
classify_command_BuildFirst(name) ==
    LET name_lower == {to_ascii_lowercase(name[i]) : i \in 1..Len(name)}
    IN IF name_lower \cap BUILD_KEYWORDS # {} THEN "Build"
       ELSE IF name_lower \cap TEST_KEYWORDS # {} THEN "Test"
       ELSE "Other"

\* a keyword is one token of the model, so containment is token membership
classify_command(name) ==
    LET name_lower == {to_ascii_lowercase(name[i]) : i \in 1..Len(name)}
    IN IF name_lower \cap TEST_KEYWORDS # {} THEN "Test"
       ELSE IF name_lower \cap BUILD_KEYWORDS # {} THEN "Build"
       ELSE "Other"

EmptyCommands == [test |-> <<>>, build |-> <<>>, other |-> <<>>]

add_command(commands, cmd, category) ==
    CASE category = "Test" -> [commands EXCEPT !.test = Append(@, cmd)]
      [] category = "Build" -> [commands EXCEPT !.build = Append(@, cmd)]
      [] category = "Other" -> [commands EXCEPT !.other = Append(@, cmd)]

Direct(command) == [type |-> "Direct", command |-> command]
PackageManagerScript(script_name, script_body, package_json_path) ==
    [type |-> "PackageManagerScript", script_name |-> script_name,
     script_body |-> script_body, package_json_path |-> package_json_path]

TaskCommand(name, executable) == [name |-> name, executable |-> executable]

\* the line-anchored, structured and manifest parsers: one command per name
\* found, invoking the runner by name, classified by the name
RECURSIVE ExtractNamed(_, _, _)
ExtractNamed(names, tool, commands) ==
    IF names = <<>> THEN commands
    ELSE ExtractNamed(Tail(names), tool,
            add_command(commands,
                        TaskCommand(Head(names), Direct(<<tool, " ">> \o Head(names))),
                        classify_command(Head(names))))

extract_makefile_commands(names) == ExtractNamed(names, "make", EmptyCommands)
extract_justfile_commands(names) == ExtractNamed(names, "just", EmptyCommands)
extract_invoke_yaml_commands(names) == ExtractNamed(names, "invoke", EmptyCommands)

\* every script of the model has the body "jest"
RECURSIVE NpmLoop(_, _, _)
NpmLoop(names, path, commands) ==
    IF names = <<>> THEN commands
    ELSE NpmLoop(Tail(names), path,
            add_command(commands,
                        TaskCommand(Head(names),
                                    PackageManagerScript(Head(names), <<"jest">>, path)),
                        classify_command(Head(names))))

extract_npm_commands(names, path) == NpmLoop(names, path, EmptyCommands)

get_vite_commands ==
    add_command(
      add_command(
        add_command(EmptyCommands, TaskCommand(<<"dev">>, Direct(<<"vite">>)), "Other"),
        TaskCommand(<<"build">>, Direct(<<"vite", " ", "build">>)), "Build"),
      TaskCommand(<<"preview">>, Direct(<<"vite", " ", "preview">>)), "Other")

get_cargo_commands ==
    LET c1 == add_command(EmptyCommands, TaskCommand(<<"test">>, Direct(<<"cargo", " ", "test">>)), "Test")
        c2 == add_command(c1, TaskCommand(<<"build">>, Direct(<<"cargo", " ", "build">>)), "Build")
        c3 == add_command(c2, TaskCommand(<<"build", "-", "release">>,
                              Direct(<<"cargo", " ", "build", " ", "--release">>)), "Build")
        c4 == add_command(c3, TaskCommand(<<"check">>, Direct(<<"cargo", " ", "check">>)), "Other")
        c5 == add_command(c4, TaskCommand(<<"clippy">>, Direct(<<"cargo", " ", "clippy">>)), "Other")
    IN add_command(c5, TaskCommand(<<"fmt">>, Direct(<<"cargo", " ", "fmt">>)), "Other")

get_go_commands ==
    LET c1 == add_command(EmptyCommands, TaskCommand(<<"test">>, Direct(<<"go", " ", "test", " ", "./...">>)), "Test")
        c2 == add_command(c1, TaskCommand(<<"build">>, Direct(<<"go", " ", "build">>)), "Build")
        c3 == add_command(c2, TaskCommand(<<"run">>, Direct(<<"go", " ", "run", " ", ".">>)), "Other")
        c4 == add_command(c3, TaskCommand(<<"fmt">>, Direct(<<"go", " ", "fmt", " ", "./...">>)), "Other")
    IN add_command(c4, TaskCommand(<<"vet">>, Direct(<<"go", " ", "vet", " ", "./...">>)), "Other")

TaskRunner_from(source) ==
    CASE source = "Makefile" -> "Make"
      [] source = "Justfile" -> "Just"
      [] source = "PackageJson" -> "NpmScripts"
      [] source = "ViteConfigJs" -> "Vite"
      [] source = "InvokeYaml" -> "Invoke"
      [] source = "CargoToml" -> "Cargo"
      [] source = "GoMod" -> "GoTask"

extract_commands(file) ==
    CASE file.source = "Makefile" -> extract_makefile_commands(file.names)
      [] file.source = "Justfile" -> extract_justfile_commands(file.names)
      [] file.source = "PackageJson" -> extract_npm_commands(file.names, file.path)
      [] file.source = "ViteConfigJs" -> get_vite_commands
      [] file.source = "InvokeYaml" -> extract_invoke_yaml_commands(file.names)
      [] file.source = "CargoToml" -> get_cargo_commands
      [] file.source = "GoMod" -> get_go_commands

TaskRunnerDetection_from(file) ==
    [task_runner |-> TaskRunner_from(file.source),
     source |-> file.source,
     path |-> file.path,
     commands |-> extract_commands(file)]

----------------------------------------------------------------------------
(* The file system: fs.canon maps every existing path to what canonicalize   *)
(* returns for it (itself unless it is a symbolic link), fs.manifest gives   *)
(* the content of the package.json files.                                   *)

Root == <<"/", "w">>

Exists(path) == path \in DOMAIN fs.canon

canonicalize(path) == IF Exists(path) THEN Some(fs.canon[path]) ELSE None

\* Path::strip_prefix, on whole components
strip_prefix(path, base) ==
    IF path = base THEN Some(<<>>)
    ELSE IF IsPrefixOf(base \o <<"/">>, path)
         THEN Some(SubSeq(path, Len(base) + 2, Len(path)))
         ELSE None

\* Path::parent: the path without its last component
parent(path) ==
    LET slashes == {i \in 1..Len(path) : path[i] = "/"}
    IN IF path = <<>> THEN None
       ELSE IF slashes = {} THEN Some(<<>>)
       ELSE LET last == CHOOSE i \in slashes : \A j \in slashes : j <= i
            IN Some(SubSeq(path, 1, last - 1))

join(dir, name) == IF dir = <<>> THEN <<name>> ELSE dir \o <<"/", name>>

relativize_path(root, path) ==
    LET root_abs == canonicalize(root)
        path_abs == canonicalize(path)
    IN IF IsSome(root_abs) /\ IsSome(path_abs)
          /\ IsSome(strip_prefix(Unwrap(path_abs), Unwrap(root_abs)))
       THEN strip_prefix(Unwrap(path_abs), Unwrap(root_abs))
       ELSE strip_prefix(path, root)

----------------------------------------------------------------------------
(* generation/dev_flake.rs: helpers *)

trim_matches_dash(s) ==
    LET keep == {i \in 1..Len(s) : s[i] # "-"}
    IN IF keep = {} THEN <<>>
       ELSE SubSeq(s, CHOOSE i \in keep : \A j \in keep : i <= j,
                      CHOOSE i \in keep : \A j \in keep : j <= i)

RECURSIVE SlugLoop(_, _, _)
SlugLoop(input, out, prev_dash) ==
    IF input = <<>> THEN out
    ELSE LET lower == to_ascii_lowercase(Head(input))
         IN IF is_ascii_alphanumeric(lower)
            THEN SlugLoop(Tail(input), Append(out, lower), FALSE)
            ELSE IF ~prev_dash
                 THEN SlugLoop(Tail(input), Append(out, "-"), TRUE)
                 ELSE SlugLoop(Tail(input), out, prev_dash)

slugify_identifier(input) == trim_matches_dash(SlugLoop(input, <<>>, FALSE))

slugify_path(path) == slugify_identifier(path)

command_first_word(command) ==
    LET word == {i \in 1..Len(command) : command[i] # " "}
    IN IF word = {} THEN None
       ELSE LET first == CHOOSE i \in word : \A j \in word : i <= j
                stop == {i \in first..Len(command) : command[i] = " "}
                last == IF stop = {} THEN Len(command)
                        ELSE (CHOOSE i \in stop : \A j \in stop : i <= j) - 1
            IN Some(SubSeq(command, first, last))

task_runner_name(task_runner) ==
    CASE task_runner = "Make" -> "Make"
      [] task_runner = "Just" -> "Just"
      [] task_runner = "NpmScripts" -> "NpmScripts"
      [] task_runner = "Vite" -> "Vite"
      [] task_runner = "Invoke" -> "Invoke"
      [] task_runner = "Cargo" -> "Cargo"
      [] task_runner = "GoTask" -> "GoTask"

\* str::to_ascii_lowercase on a runner name
runner_name_lower(name) ==
    CASE name = "Make" -> "make"
      [] name = "Just" -> "just"
      [] name = "NpmScripts" -> "npmscripts"
      [] name = "Vite" -> "vite"
      [] name = "Invoke" -> "invoke"
      [] name = "Cargo" -> "cargo"
      [] name = "GoTask" -> "gotask"

language_dir_name(lang) == IF lang = NoLanguage THEN "generic" ELSE Language_dir_name(lang)

category_name(category) == IF category = "Test" THEN "test" ELSE "build"

category_file_name_OneName(category) == "checks.nix"

category_file_name(category) ==
    IF category = "Test" THEN "test-checks.nix" ELSE "build-checks.nix"

detected_languages(md) == md.languages

primary_language(md) ==
    LET langs == detected_languages(md)
    IN IF Cardinality(langs) = 1 THEN CHOOSE l \in langs : TRUE ELSE NoLanguage

infer_check_language(task_runner, required_exec, primary) ==
    CASE task_runner = "Cargo" -> "Rust"
      [] task_runner = "GoTask" -> "Go"
      [] task_runner \in {"NpmScripts", "Vite"} -> "JavaScript"
      [] task_runner = "Invoke" -> "Python"
      [] OTHER ->
           CASE required_exec = <<"cargo">> -> "Rust"
             [] required_exec = <<"go">> -> "Go"
             [] required_exec \in {<<"npm">>, <<"pnpm">>, <<"yarn">>, <<"bun">>, <<"node">>} -> "JavaScript"
             [] required_exec \in {<<"python">>, <<"python3">>, <<"tox">>, <<"nox">>, <<"invoke">>} -> "Python"
             [] OTHER -> primary

----------------------------------------------------------------------------
(* generation/dev_flake.rs: the package manager of a manifest *)

\* str::split('@').next(): the text before the first '@'
SplitAtFirst(str) ==
    LET ats == {i \in 1..Len(str) : str[i] = "@"}
    IN IF ats = {} THEN str
       ELSE SubSeq(str, 1, (CHOOSE i \in ats : \A j \in ats : i <= j) - 1)

\* a manifest is [readable, json, packageManager]: whether it can be read,
\* whether it parses, and the string value of its packageManager field if any
read_package_json_manager(path) ==
    IF ~(path \in DOMAIN fs.manifest) THEN None
    ELSE LET m == fs.manifest[path]
         IN IF ~m.readable \/ ~m.json \/ ~IsSome(m.packageManager) THEN None
            ELSE LET name == SplitAtFirst(Unwrap(m.packageManager))
                 IN CASE name = <<"npm">> -> Some("Npm")
                      [] name = <<"pnpm">> -> Some("Pnpm")
                      [] name = <<"yarn">> -> Some("Yarn")
                      [] name = <<"bun">> -> Some("Bun")
                      [] OTHER -> None

detect_lockfile_manager(dir) ==
    IF Exists(join(dir, "bun.lockb")) \/ Exists(join(dir, "bun.lock")) THEN Some("Bun")
    ELSE IF Exists(join(dir, "pnpm-lock.yaml")) THEN Some("Pnpm")
    ELSE IF Exists(join(dir, "yarn.lock")) THEN Some("Yarn")
    ELSE IF Exists(join(dir, "package-lock.json")) THEN Some("Npm")
    ELSE None

resolve_js_package_manager_LockfileFirst(package_json_path) ==
    IF IsSome(parent(package_json_path))
       /\ IsSome(detect_lockfile_manager(Unwrap(parent(package_json_path))))
    THEN Unwrap(detect_lockfile_manager(Unwrap(parent(package_json_path))))
    ELSE IF IsSome(read_package_json_manager(package_json_path))
         THEN Unwrap(read_package_json_manager(package_json_path))
         ELSE "Npm"

resolve_js_package_manager(package_json_path) ==
    IF IsSome(read_package_json_manager(package_json_path))
    THEN Unwrap(read_package_json_manager(package_json_path))
    ELSE IF ~IsSome(parent(package_json_path)) THEN "Npm"
    ELSE IF IsSome(detect_lockfile_manager(Unwrap(parent(package_json_path))))
         THEN Unwrap(detect_lockfile_manager(Unwrap(parent(package_json_path))))
         ELSE "Npm"

\* PackageManager::command_name, run_script, is_js_package_manager
command_name(pm) ==
    CASE pm = "Npm" -> Some(<<"npm">>)
      [] pm = "Pnpm" -> Some(<<"pnpm">>)
      [] pm = "Yarn" -> Some(<<"yarn">>)
      [] pm = "Bun" -> Some(<<"bun">>)
      [] OTHER -> None

run_script(pm, script_name) ==
    IF IsSome(command_name(pm))
    THEN Some(Unwrap(command_name(pm)) \o <<" ", "run", " ">> \o script_name)
    ELSE None

is_js_package_manager(pm) == pm \in {"Npm", "Pnpm", "Yarn", "Bun", "Deno"}

resolve_task_command(cmd, root) ==
    IF cmd.executable.type = "Direct"
    THEN LET command == cmd.executable.command
             first == command_first_word(command)
         IN [info |-> [required_exec |-> IF IsSome(first) THEN Unwrap(first) ELSE <<>>,
                       command |-> command,
                       workdir |-> <<".">>,
                       display |-> command],
             pm_used |-> None]
    ELSE LET e == cmd.executable
             pm == resolve_js_package_manager(e.package_json_path)
             pm_cmd == IF IsSome(command_name(pm)) THEN Unwrap(command_name(pm)) ELSE <<>>
             run_command == IF IsSome(run_script(pm, e.script_name))
                            THEN Unwrap(run_script(pm, e.script_name))
                            ELSE <<"npm", " ", "run", " ">> \o e.script_name
             par == parent(e.package_json_path)
             rel == IF IsSome(par) THEN relativize_path(root, Unwrap(par)) ELSE None
         IN [info |-> [required_exec |-> pm_cmd,
                       command |-> run_command,
                       workdir |-> IF IsSome(rel) THEN Unwrap(rel) ELSE <<".">>,
                       display |-> run_command \o <<" ", " ", "#", " ">> \o e.script_body],
             pm_used |-> Some(pm)]

----------------------------------------------------------------------------
(* generation/dev_flake.rs: versions, toolchain attributes and notices *)

GO_VERSION_SOURCES == {"GoModDirective", "GoVersionFile"}
PYTHON_VERSION_SOURCES == {"PyprojectRequiresPython", "PythonVersionFile",
                           "PipfilePythonVersion", "SetupPyPythonRequires"}
NODE_VERSION_SOURCES == {"PackageJsonEnginesNode", "NvmrcFile", "NodeVersionFile"}
RUST_VERSION_SOURCES == {"RustToolchainFile", "RustToolchainToml", "CargoTomlRustVersion"}

unwrap_or_0(o) == IF IsSome(o) THEN Unwrap(o) ELSE 0

VersionTuple(v) ==
    IF ~IsSome(v.parsed) THEN <<0, 0, 0>>
    ELSE <<unwrap_or_0(Unwrap(v.parsed).major), unwrap_or_0(Unwrap(v.parsed).minor),
           unwrap_or_0(Unwrap(v.parsed).patch)>>

TupleLeq(a, b) ==
    \/ a[1] < b[1]
    \/ a[1] = b[1] /\ a[2] < b[2]
    \/ a[1] = b[1] /\ a[2] = b[2] /\ a[3] <= b[3]

\* Iterator::max_by_key: the last of the greatest elements
RECURSIVE MaxByKey(_, _)
MaxByKey(versions, best) ==
    IF versions = <<>> THEN best
    ELSE IF ~IsSome(best) \/ TupleLeq(VersionTuple(Unwrap(best)), VersionTuple(Head(versions)))
         THEN MaxByKey(Tail(versions), Some(Head(versions)))
         ELSE MaxByKey(Tail(versions), best)

best_version_info_AnySource(md, language, allowed_sources) ==
    LET found == {i \in 1..Len(md.versions) : md.versions[i].language = language}
    IN IF found = {} THEN None
       ELSE LET vd == md.versions[CHOOSE i \in found : \A j \in found : i <= j]
                versions == SelectSeq(vd.versions, LAMBDA v : IsSome(v.parsed))
            IN MaxByKey(versions, None)

best_version_info(md, language, allowed_sources) ==
    LET found == {i \in 1..Len(md.versions) : md.versions[i].language = language}
    IN IF found = {} THEN None
       ELSE LET vd == md.versions[CHOOSE i \in found : \A j \in found : i <= j]
                versions == SelectSeq(vd.versions,
                                LAMBDA v : v.source \in allowed_sources /\ IsSome(v.parsed))
            IN MaxByKey(versions, None)

go_attr_from_version(version) ==
    IF ~IsSome(version.major) \/ ~IsSome(version.minor) THEN None
    ELSE Some(<<"go_">> \o FormatUsize(Unwrap(version.major)) \o <<"_">>
              \o FormatUsize(Unwrap(version.minor)))

python_attr_from_version(version) ==
    IF ~IsSome(version.major) \/ ~IsSome(version.minor) THEN None
    ELSE Some(<<"python">> \o FormatUsize(Unwrap(version.major))
              \o FormatUsize(Unwrap(version.minor)))

node_attr_from_version(version) ==
    IF ~IsSome(version.major) THEN None
    ELSE Some(<<"nodejs_">> \o FormatUsize(Unwrap(version.major)))

rust_version_string_from_version(version) ==
    IF ~IsSome(version.major) \/ ~IsSome(version.minor) \/ ~IsSome(version.patch) THEN None
    ELSE Some(FormatUsize(Unwrap(version.major)) \o <<".">>
              \o FormatUsize(Unwrap(version.minor)) \o <<".">>
              \o FormatUsize(Unwrap(version.patch)))

\* v.parsed.as_ref() chained on an optional VersionInfo
ParsedOf(version_info) ==
    IF IsSome(version_info) THEN Unwrap(version_info).parsed ELSE None

AndThen(o, F(_)) == IF IsSome(o) THEN F(Unwrap(o)) ELSE None

generate_version_notice(language_name, version_info, selected_attr, default_fallback, note) ==
    IF ~IsSome(version_info) THEN None
    ELSE IF ~IsSome(Unwrap(version_info).parsed) THEN None
    ELSE Some([language |-> language_name,
               requested |-> <<Unwrap(version_info).raw, Unwrap(version_info).source>>,
               selected |-> IF IsSome(selected_attr) THEN Unwrap(selected_attr)
                            ELSE default_fallback,
               note |-> note])

go_notice(go_version, go_want_attr) ==
    LET p == ParsedOf(go_version)
        patch_note == IF IsSome(p) /\ IsSome(Unwrap(p).patch)
                      THEN Some("patch may differ") ELSE None
    IN generate_version_notice("Go", go_version, go_want_attr,
                               <<"go (unversioned; go_* not inferred)">>, patch_note)

python_notice(python_version, python_want_attr) ==
    LET p == ParsedOf(python_version)
        patch_note == IF IsSome(p) /\ (IsSome(Unwrap(p).patch) \/ Unwrap(p).constraint # "Exact")
                      THEN Some("patch may differ") ELSE None
    IN generate_version_notice("Python", python_version, python_want_attr,
                               <<"python3 (unversioned; pythonXY not inferred)">>, patch_note)

node_notice(node_version, node_want_attr) ==
    LET p == ParsedOf(node_version)
        patch_note == IF IsSome(p) /\ (IsSome(Unwrap(p).minor) \/ IsSome(Unwrap(p).patch))
                      THEN Some("minor/patch may differ") ELSE None
    IN generate_version_notice("Node", node_version, node_want_attr,
                               <<"nodejs (unversioned; nodejs_* not inferred)">>, patch_note)

rust_notice(need_rust, rust_version, rust_want_version) ==
    IF ~need_rust THEN None
    ELSE IF IsSome(rust_want_version)
    THEN Some([language |-> "Rust",
               requested |-> IF IsSome(rust_version)
                             THEN <<Unwrap(rust_version).raw, Unwrap(rust_version).source>>
                             ELSE <<"(unknown)">>,
               selected |-> Unwrap(rust_want_version),
               note |-> Some("fallback latest")])
    ELSE IF IsSome(rust_version)
    THEN Some([language |-> "Rust",
               requested |-> <<Unwrap(rust_version).raw, Unwrap(rust_version).source>>,
               selected |-> <<"latest">>,
               note |-> Some("not exact pin")])
    ELSE None

\* NoticeListBuilder::build: the notices list of a package document
NoticeListBuilder_build(notice) == IF IsSome(notice) THEN <<Unwrap(notice)>> ELSE <<>>

----------------------------------------------------------------------------
(* generation/dev_flake.rs: collect_checks *)

Categories == <<"Test", "Build">>

Bucket_BuildReadsOther(tr, category) ==
    IF category = "Test" THEN tr.commands.test ELSE tr.commands.other

Bucket(tr, category) == IF category = "Test" THEN tr.commands.test ELSE tr.commands.build

\* the commands in the order the three nested loops of collect_checks visit them
RECURSIVE WorkOfBucket(_, _, _, _)
WorkOfBucket(i, category, cmds, j) ==
    IF j > Len(cmds) THEN <<>>
    ELSE <<[tr |-> i, category |-> category, cmd |-> cmds[j]]>>
         \o WorkOfBucket(i, category, cmds, j + 1)

RECURSIVE WorkList(_, _)
WorkList(task_runners, i) ==
    IF i > Len(task_runners) THEN <<>>
    ELSE WorkOfBucket(i, "Test", Bucket(task_runners[i], "Test"), 1)
         \o WorkOfBucket(i, "Build", Bucket(task_runners[i], "Build"), 1)
         \o WorkList(task_runners, i + 1)

Work == WorkList(metadata.task_runners, 1)

BaseKey(cmd, language, category, task_runner, runner_slug) ==
    <<language_dir_name(language), "-", category_name(category), "-",
      runner_name_lower(task_runner_name(task_runner)), "-">>
    \o slugify_identifier(cmd.name) \o <<"-">> \o runner_slug

build_check_spec_SuffixOneLess(cmd, cmd_info, language, category, task_runner, runner_slug, counts) ==
    LET base == BaseKey(cmd, language, category, task_runner, runner_slug)
        count == (IF base \in DOMAIN counts THEN counts[base] ELSE 0) + 1
        key == IF count > 1 THEN base \o <<"-">> \o FormatUsize(count - 1) ELSE base
    IN [spec |-> [language |-> language,
                  category |-> category,
                  key |-> key,
                  derivation_name |-> <<"check-">> \o key,
                  display |-> cmd_info.display,
                  required_exec |-> cmd_info.required_exec,
                  command |-> cmd_info.command,
                  workdir |-> cmd_info.workdir],
        key_counts |-> [k \in DOMAIN counts \cup {base} |-> IF k = base THEN count ELSE counts[k]]]

build_check_spec(cmd, cmd_info, language, category, task_runner, runner_slug, counts) ==
    LET base == BaseKey(cmd, language, category, task_runner, runner_slug)
        count == (IF base \in DOMAIN counts THEN counts[base] ELSE 0) + 1
        key == IF count > 1 THEN base \o <<"-">> \o FormatUsize(count) ELSE base
    IN [spec |-> [language |-> language,
                  category |-> category,
                  key |-> key,
                  derivation_name |-> <<"check-">> \o key,
                  display |-> cmd_info.display,
                  required_exec |-> cmd_info.required_exec,
                  command |-> cmd_info.command,
                  workdir |-> cmd_info.workdir],
        key_counts |-> [k \in DOMAIN counts \cup {base} |-> IF k = base THEN count ELSE counts[k]]]

\* grouped.entry(language).or_default().entry(category).or_default().push(spec)
PushGrouped(g, spec) ==
    LET by_cat == IF spec.language \in DOMAIN g THEN g[spec.language] ELSE <<>>
        old == IF spec.category \in DOMAIN by_cat THEN by_cat[spec.category] ELSE <<>>
        by_cat2 == [c \in DOMAIN by_cat \cup {spec.category} |->
                        IF c = spec.category THEN Append(old, spec) ELSE by_cat[c]]
    IN [l \in DOMAIN g \cup {spec.language} |-> IF l = spec.language THEN by_cat2 ELSE g[l]]

\* slice::sort_by(|a, b| a.key.cmp(&b.key)): stable
RECURSIVE InsertByKey(_, _)
InsertByKey(sorted, spec) ==
    IF sorted = <<>> THEN <<spec>>
    ELSE IF StrLess(spec.key, Head(sorted).key) THEN <<spec>> \o sorted
    ELSE <<Head(sorted)>> \o InsertByKey(Tail(sorted), spec)

RECURSIVE SortByKey(_, _)
SortByKey(specs, sorted) ==
    IF specs = <<>> THEN sorted
    ELSE SortByKey(Tail(specs), InsertByKey(sorted, Head(specs)))

\* the groups are left in the order of the pushes
SortGrouped_AsPushed(g) == g

SortGrouped(g) == [l \in DOMAIN g |-> [c \in DOMAIN g[l] |-> SortByKey(g[l][c], <<>>)]]

----------------------------------------------------------------------------
(* generation/dev_flake.rs: the generated documents *)

RunnerSet(md) == {md.task_runners[i].task_runner : i \in 1..Len(md.task_runners)}

NeedNodeInitially(md) ==
    "JavaScript" \in detected_languages(md)
    \/ RunnerSet(md) \cap {"NpmScripts", "Vite", "Webpack", "Rspack", "Rollup", "Turbo", "Nx"} # {}

NeedPythonInitially(md) ==
    "Python" \in detected_languages(md) \/ RunnerSet(md) \cap {"Tox", "Nox", "Invoke"} # {}

NeedGo_DetectedOnly(md) == "Go" \in detected_languages(md)

NeedGo(md) == "Go" \in detected_languages(md) \/ "GoTask" \in RunnerSet(md)

NeedRust(md) == "Rust" \in detected_languages(md) \/ "Cargo" \in RunnerSet(md)

detected_package_managers(md) == md.package_managers

required_node_tools(task_runners) == task_runners \cap {"Vite", "Webpack", "Rspack", "Rollup", "Turbo", "Nx"}

required_task_runner_tools(md) == RunnerSet(md) \cap {"Make", "Just", "Task", "Tox", "Nox", "Invoke"}

generic_task_runner_packages(tools) == tools \cap {"Make", "Just", "Task"}

LanguageOrder == <<NoLanguage, "Go", "Python", "JavaScript", "Rust">>

RECURSIVE CheckFilesFrom(_, _, _)
CheckFilesFrom(checks_by_lang, li, ci) ==
    IF li > Len(LanguageOrder) THEN <<>>
    ELSE IF ci > Len(Categories) THEN CheckFilesFrom(checks_by_lang, li + 1, 1)
    ELSE LET language == LanguageOrder[li]
             category == Categories[ci]
         IN IF ~(language \in DOMAIN checks_by_lang) THEN CheckFilesFrom(checks_by_lang, li + 1, 1)
            ELSE IF ~(category \in DOMAIN checks_by_lang[language])
                    \/ checks_by_lang[language][category] = <<>>
                 THEN CheckFilesFrom(checks_by_lang, li, ci + 1)
                 ELSE <<[language |-> language,
                         category |-> category,
                         content |-> checks_by_lang[language][category],
                         relative_path |-> <<language_dir_name(language), "/",
                                             category_file_name(category)>>]>>
                      \o CheckFilesFrom(checks_by_lang, li, ci + 1)

generate_check_files(checks_by_lang) == CheckFilesFrom(checks_by_lang, 1, 1)

\* the documents generate_flake_let_bindings imports
generate_flake_let_bindings(uses_rust_overlay, need_go, need_py, need_nd, need_rust, tools) ==
    [overlay_import |-> IF uses_rust_overlay THEN <<<<"rust", "/", "overlay.nix">>>> ELSE <<>>,
     package_imports |->
         (IF need_go THEN <<<<"golang", "/", "packages.nix">>>> ELSE <<>>)
         \o (IF need_py THEN <<<<"python", "/", "packages.nix">>>> ELSE <<>>)
         \o (IF need_nd THEN <<<<"nodejs", "/", "packages.nix">>>> ELSE <<>>)
         \o (IF need_rust THEN <<<<"rust", "/", "packages.nix">>>> ELSE <<>>),
     generic_packages |-> generic_task_runner_packages(tools)]

generate_checks_binding_SkipsFirst(check_files) ==
    [i \in 1..(Len(check_files) - 1) |-> check_files[i + 1].relative_path]

\* the documents generate_checks_binding imports
generate_checks_binding(check_files) ==
    [i \in 1..Len(check_files) |-> check_files[i].relative_path]

generate_main_flake(need_go, need_py, need_nd, need_rust, uses_rust_overlay, check_files, tools) ==
    LET bindings == generate_flake_let_bindings(uses_rust_overlay, need_go, need_py,
                                                need_nd, need_rust, tools)
    IN [overlay_import |-> bindings.overlay_import,
        package_imports |-> bindings.package_imports,
        generic_packages |-> bindings.generic_packages,
        project_root |-> check_files # <<>>,
        check_imports |-> generate_checks_binding(check_files)]

\* lines 94-219 of generate_dev_flake, after collect_checks has returned
generate_dev_flake(md, checks_by_lang, need_nd, need_py, pms) ==
    LET need_go == NeedGo(md)
        need_rust == NeedRust(md)
        go_version == best_version_info(md, "Go", GO_VERSION_SOURCES)
        python_version == best_version_info(md, "Python", PYTHON_VERSION_SOURCES)
        node_version == best_version_info(md, "JavaScript", NODE_VERSION_SOURCES)
        rust_version == best_version_info(md, "Rust", RUST_VERSION_SOURCES)
        go_want_attr == AndThen(ParsedOf(go_version), go_attr_from_version)
        python_want_attr == AndThen(ParsedOf(python_version), python_attr_from_version)
        node_want_attr == AndThen(ParsedOf(node_version), node_attr_from_version)
        rust_exact == IF IsSome(ParsedOf(rust_version))
                         /\ Unwrap(ParsedOf(rust_version)).constraint = "Exact"
                      THEN rust_version ELSE None
        rust_want_version == AndThen(ParsedOf(rust_exact), rust_version_string_from_version)
        node_tools == required_node_tools(RunnerSet(md))
        tools == required_task_runner_tools(md)
        uses_rust_overlay == need_rust
        language_packages ==
            (IF need_go
             THEN <<[language |-> "Go",
                     want |-> IF IsSome(go_want_attr) THEN Unwrap(go_want_attr) ELSE <<"go">>,
                     notices |-> NoticeListBuilder_build(go_notice(go_version, go_want_attr)),
                     tools |-> {}]>>
             ELSE <<>>)
            \o (IF need_py
                THEN <<[language |-> "Python",
                        want |-> IF IsSome(python_want_attr) THEN Unwrap(python_want_attr)
                                 ELSE <<"python3">>,
                        notices |-> NoticeListBuilder_build(
                                        python_notice(python_version, python_want_attr)),
                        tools |-> (pms \cap {"Poetry", "Uv", "Pdm", "Pipenv"})
                                  \cup (tools \cap {"Tox", "Nox", "Invoke"})]>>
                ELSE <<>>)
            \o (IF need_nd
                THEN <<[language |-> "JavaScript",
                        want |-> IF IsSome(node_want_attr) THEN Unwrap(node_want_attr)
                                 ELSE <<"nodejs">>,
                        notices |-> NoticeListBuilder_build(
                                        node_notice(node_version, node_want_attr)),
                        tools |-> (pms \cap {"Pnpm", "Yarn", "Bun", "Deno"}) \cup node_tools]>>
                ELSE <<>>)
            \o (IF need_rust
                THEN <<[language |-> "Rust",
                        want |-> IF IsSome(rust_want_version) THEN Unwrap(rust_want_version)
                                 ELSE <<"latest">>,
                        notices |-> NoticeListBuilder_build(
                                        rust_notice(need_rust, rust_version, rust_want_version)),
                        tools |-> {}]>>
                ELSE <<>>)
        check_files == generate_check_files(checks_by_lang)
    IN [main_flake |-> generate_main_flake(need_go, need_py, need_nd, need_rust,
                                           uses_rust_overlay, check_files, tools),
        language_packages |-> language_packages,
        check_files |-> check_files,
        rust_overlay |-> IF uses_rust_overlay THEN Some("overlay") ELSE None]

----------------------------------------------------------------------------
(* The projects generation is run on *)

EmptyFcn == [x \in {} |-> x]

\* the runner files a project may contain: M is Makefile, p package.json,
\* c Cargo.toml, g go.mod, x vite.config.js, y invoke.yaml, s and t
\* subdirectories
RunnerFiles ==
    {[source |-> "Makefile", path |-> <<"/", "w", "/", "M">>,
      names |-> <<<<"test">>, <<"TEST">>, <<"build">>>>],
     [source |-> "Makefile", path |-> <<"/", "w", "/", "s", "/", "M">>,
      names |-> <<<<"test">>, <<"u">>>>],
     [source |-> "Makefile", path |-> <<"/", "w", "/", "t", "/", "M">>,
      names |-> <<<<"test">>>>],
     [source |-> "PackageJson", path |-> <<"/", "w", "/", "p">>,
      names |-> <<<<"test", ":", "u">>, <<"test", "_", "u">>, <<"u">>>>],
     [source |-> "PackageJson", path |-> <<"/", "w", "/", "s", "/", "p">>,
      names |-> <<<<"build">>>>],
     [source |-> "CargoToml", path |-> <<"/", "w", "/", "c">>, names |-> <<>>],
     [source |-> "GoMod", path |-> <<"/", "w", "/", "g">>, names |-> <<>>],
     [source |-> "ViteConfigJs", path |-> <<"/", "w", "/", "x">>, names |-> <<>>],
     [source |-> "InvokeYaml", path |-> <<"/", "w", "/", "y">>, names |-> <<<<"test">>>>]}

Depth(path) == Cardinality({i \in 1..Len(path) : path[i] = "/"})

\* the walker is breadth-first: files are met by increasing depth
RunnerSeqs(n) ==
    {fsq \in InjectiveSeqs(RunnerFiles, n) :
        \A i \in 1..Len(fsq) : \A j \in 1..Len(fsq) :
            i < j => Depth(fsq[i].path) <= Depth(fsq[j].path)}

\* /w/s/M is a symbolic link to the file /w/m-2 and /w/t/M one to the file
\* /w/M; /w/s holds a yarn.lock;
\* /w/p declares pnpm, /w/s/p declares nothing
SymlinkTarget == <<"/", "w", "/", "m", "-", "2">>

FsOf(files) ==
    LET found == {Root, <<"/", "w", "/", "s">>, SymlinkTarget,
                  <<"/", "w", "/", "s", "/", "yarn.lock">>}
                 \cup {files[i].path : i \in 1..Len(files)}
    IN [canon |-> [q \in found |-> IF q = <<"/", "w", "/", "s", "/", "M">>
                                   THEN SymlinkTarget
                                   ELSE IF q = <<"/", "w", "/", "t", "/", "M">>
                                        THEN <<"/", "w", "/", "M">> ELSE q],
        manifest |-> [q \in {files[i].path : i \in 1..Len(files)}
                            \cap {<<"/", "w", "/", "p">>, <<"/", "w", "/", "s", "/", "p">>} |->
                        [readable |-> TRUE, json |-> TRUE,
                         packageManager |-> IF q = <<"/", "w", "/", "p">>
                                            THEN Some(<<"pnpm", "@", "9">>) ELSE None]]]

SemVer(major, minor, patch, constraint) ==
    [major |-> major, minor |-> minor, patch |-> patch, constraint |-> constraint]

AllowedSource(l) ==
    CASE l = "Go" -> "GoModDirective"
      [] l = "Python" -> "PythonVersionFile"
      [] l = "JavaScript" -> "NvmrcFile"
      [] l = "Rust" -> "CargoTomlRustVersion"

VMajorMinor(l) == [raw |-> "1.21", source |-> AllowedSource(l),
                   parsed |-> Some(SemVer(Some(1), Some(21), None, "Exact"))]
VMajor(l) == [raw |-> ">=3", source |-> AllowedSource(l),
              parsed |-> Some(SemVer(Some(3), None, None, "GreaterOrEqual"))]
VPatch(l) == [raw |-> "1.70.0", source |-> AllowedSource(l),
              parsed |-> Some(SemVer(Some(1), Some(70), Some(0), "Exact"))]
VCaret(l) == [raw |-> "^1.70.0", source |-> AllowedSource(l),
              parsed |-> Some(SemVer(Some(1), Some(70), Some(0), "Caret"))]
VBun == [raw |-> "20.1", source |-> "BunVersionFile",
         parsed |-> Some(SemVer(Some(20), Some(1), None, "Exact"))]

\* the VersionInfo lists detection may have found for a language
VersionLists(l) ==
    {<<>>, <<VMajorMinor(l)>>, <<VMajor(l)>>, <<VPatch(l), VMajorMinor(l)>>}
    \cup (IF l = "JavaScript" THEN {<<VBun>>} ELSE {})
    \cup (IF l = "Rust" THEN {<<VCaret(l)>>} ELSE {})

FewVersionLists(l) == {<<>>, <<VMajorMinor(l)>>}

\* one VersionDetection per language with a non-empty list
VersionDetections(chosen) ==
    LET vd(l) == IF l \in DOMAIN chosen /\ chosen[l] # <<>>
                 THEN <<[language |-> l, versions |-> chosen[l]]>> ELSE <<>>
    IN vd("Go") \o vd("Python") \o vd("JavaScript") \o vd("Rust")

Detect(files, languages, chosen) ==
    [languages |-> languages,
     versions |-> VersionDetections(chosen),
     package_managers |-> {},
     task_runners |-> [i \in 1..Len(files) |-> TaskRunnerDetection_from(files[i])]]

----------------------------------------------------------------------------
(* generate_dev_flake as a sequence of steps *)

GenStart(files, languages, chosen) ==
    /\ metadata = Detect(files, languages, chosen)
    /\ fs = FsOf(files)
    /\ pc = "collect"
    /\ pos = 1
    /\ key_counts = EmptyFcn
    /\ grouped = EmptyFcn
    /\ need_node = NeedNodeInitially(metadata)
    /\ need_python = NeedPythonInitially(metadata)
    /\ required_package_managers = detected_package_managers(metadata)
    /\ flake = <<>>
    /\ PmIdle /\ EscIdle /\ ShIdle /\ DetIdle /\ CallIdle

Init ==
    \E files \in RunnerSeqs(MaxRunners) : \E languages \in SUBSET Languages :
        \E chosen \in [languages -> UNION {FewVersionLists(l) : l \in Languages}] :
            /\ \A l \in languages : chosen[l] \in FewVersionLists(l)
            /\ GenStart(files, languages, chosen)

InitV ==
    \E files \in RunnerSeqs(MaxRunnersV) : \E languages \in SUBSET Languages :
        \E chosen \in [languages -> UNION {VersionLists(l) : l \in Languages}] :
            /\ \A l \in languages : chosen[l] \in VersionLists(l)
            /\ GenStart(files, languages, chosen)

\* one iteration of the innermost loop of collect_checks
ProcessCommand ==
    /\ pc = "collect"
    /\ pos <= Len(Work)
    /\ LET item == Work[pos]
           tr == metadata.task_runners[item.tr]
           rel == relativize_path(Root, tr.path)
           runner_path == IF IsSome(rel) THEN Unwrap(rel) ELSE tr.path
           runner_slug == slugify_path(runner_path)
           resolved == resolve_task_command(item.cmd, Root)
           cmd_info == resolved.info
           language == infer_check_language(tr.task_runner, cmd_info.required_exec,
                                            primary_language(metadata))
           built == build_check_spec(item.cmd, cmd_info, language, item.category,
                                     tr.task_runner, runner_slug, key_counts)
       IN /\ required_package_managers' =
                 IF IsSome(resolved.pm_used)
                 THEN required_package_managers \cup {Unwrap(resolved.pm_used)}
                 ELSE required_package_managers
          /\ need_node' = (need_node \/ (IsSome(resolved.pm_used)
                                          /\ is_js_package_manager(Unwrap(resolved.pm_used))))
          /\ need_python' = (need_python
                             \/ cmd_info.required_exec \in {<<"tox">>, <<"nox">>, <<"invoke">>})
          /\ key_counts' = built.key_counts
          /\ grouped' = PushGrouped(grouped, built.spec)
    /\ pos' = pos + 1
    /\ UNCHANGED <<metadata, fs, pc, flake>>
    /\ UNCHANGED <<pmVars, escVars, shVars, detVars, callVars>>

\* the end of collect_checks (the groups are sorted) and the rest of
\* generate_dev_flake
Emit ==
    /\ pc = "collect"
    /\ pos > Len(Work)
    /\ grouped' = SortGrouped(grouped)
    /\ flake' = generate_dev_flake(metadata, grouped', need_node, need_python,
                                   required_package_managers)
    /\ pc' = "done"
    /\ UNCHANGED <<metadata, fs, pos, key_counts, need_node, need_python,
                   required_package_managers>>
    /\ UNCHANGED <<pmVars, escVars, shVars, detVars, callVars>>

Next == ProcessCommand \/ Emit

Spec == Init /\ [][Next]_vars

SpecV == InitV /\ [][Next]_vars

----------------------------------------------------------------------------
(* Claims about the generator *)

RECURSIVE ChecksOf(_)
ChecksOf(check_files) ==
    IF check_files = <<>> THEN <<>>
    ELSE Head(check_files).content \o ChecksOf(Tail(check_files))

AllChecks == ChecksOf(flake.check_files)

\* C1: in one run of generate_dev_flake the derivation keys of all generated
\* checks are pairwise distinct, across all documents, also when a suffixed
\* key base-N meets another command's unsuffixed base key.
C1_KeysPairwiseDistinct ==
    pc = "done" =>
        \A i, j \in 1..Len(AllChecks) : i # j => AllChecks[i].key # AllChecks[j].key


\* the commands collect_checks is to turn into checks, and those it is not
TestAndBuildCommands ==
    SumSeq([i \in 1..Len(metadata.task_runners) |->
                Len(metadata.task_runners[i].commands.test)
                + Len(metadata.task_runners[i].commands.build)])

OtherCommands ==
    UNION {{metadata.task_runners[i].commands.other[j].executable :
                j \in 1..Len(metadata.task_runners[i].commands.other)} :
           i \in 1..Len(metadata.task_runners)}

ChecksOfCommand(tr, category, cmd) ==
    {k \in 1..Len(AllChecks) :
        /\ AllChecks[k].category = category
        /\ AllChecks[k].command = resolve_task_command(cmd, Root).info.command
        /\ AllChecks[k].key[5] = runner_name_lower(task_runner_name(tr.task_runner))}

\* C2: every command of the test and build buckets of every runner gets a
\* check, no command of the other bucket gets one, and the number of checks
\* is the sum over the runners of |test| + |build|.
C2_OneCheckPerTestOrBuildCommand ==
    pc = "done" =>
        /\ Len(AllChecks) = TestAndBuildCommands
        /\ \A i \in 1..Len(metadata.task_runners) :
             LET tr == metadata.task_runners[i]
             IN /\ \A j \in 1..Len(tr.commands.test) :
                     ChecksOfCommand(tr, "Test", tr.commands.test[j]) # {}
                /\ \A j \in 1..Len(tr.commands.build) :
                     ChecksOfCommand(tr, "Build", tr.commands.build[j]) # {}
                /\ \A j \in 1..Len(tr.commands.other) :
                     \A k \in 1..Len(AllChecks) :
                        AllChecks[k].command
                            # resolve_task_command(tr.commands.other[j], Root).info.command

\* a finished run over a runner that has commands in all three buckets
C2_Witness ==
    /\ pc = "done"
    /\ \E i \in 1..Len(metadata.task_runners) :
         /\ metadata.task_runners[i].commands.test # <<>>
         /\ metadata.task_runners[i].commands.build # <<>>
         /\ metadata.task_runners[i].commands.other # <<>>
    /\ Len(AllChecks) >= 3

\* the ecosystems the generator is to provide: detected, or implied by a
\* runner exclusive to the ecosystem
Needed(l) ==
    \/ l \in metadata.languages
    \/ l = "JavaScript" /\ RunnerSet(metadata)
            \cap {"NpmScripts", "Vite", "Webpack", "Rspack", "Rollup", "Turbo", "Nx"} # {}
    \/ l = "Python" /\ RunnerSet(metadata) \cap {"Tox", "Nox", "Invoke"} # {}
    \/ l = "Rust" /\ "Cargo" \in RunnerSet(metadata)
    \/ l = "Go" /\ "GoTask" \in RunnerSet(metadata)

PackageDocsOf(l) ==
    {i \in 1..Len(flake.language_packages) : flake.language_packages[i].language = l}

\* C5: exactly one package document for an ecosystem iff it is needed; never
\* two, and none for an ecosystem that is not needed.
C5_OnePackageDocumentIffNeeded ==
    pc = "done" =>
        \A l \in Languages : Cardinality(PackageDocsOf(l)) = IF Needed(l) THEN 1 ELSE 0

\* a finished run where one ecosystem is needed only through its runner, one
\* is detected directly and one is not needed
C5_Witness ==
    /\ pc = "done"
    /\ \E l \in Languages : Needed(l) /\ ~(l \in metadata.languages)
                            /\ Cardinality(PackageDocsOf(l)) = 1
    /\ \E l \in Languages : l \in metadata.languages
    /\ \E l \in Languages : ~Needed(l) /\ PackageDocsOf(l) = {}

FilesOf(l, c) ==
    {i \in 1..Len(flake.check_files) :
        flake.check_files[i].language = l /\ flake.check_files[i].category = c}

HasChecks(l, c) == l \in DOMAIN grouped /\ c \in DOMAIN grouped[l] /\ grouped[l][c] # <<>>

\* C6: the check documents partition the checks by (ecosystem or generic,
\* category): one document per pair that has a check, none empty, no two with
\* the same relative path, every check in the document of its own pair.
C6_CheckDocumentsPartitionChecks ==
    pc = "done" =>
        /\ \A l \in Range(LanguageOrder) : \A c \in Range(Categories) :
             /\ Cardinality(FilesOf(l, c)) = IF HasChecks(l, c) THEN 1 ELSE 0
             /\ \A i \in FilesOf(l, c) : flake.check_files[i].content = grouped[l][c]
        /\ \A i \in 1..Len(flake.check_files) :
             /\ flake.check_files[i].content # <<>>
             /\ \A k \in 1..Len(flake.check_files[i].content) :
                  /\ flake.check_files[i].content[k].language = flake.check_files[i].language
                  /\ flake.check_files[i].content[k].category = flake.check_files[i].category
        /\ \A i, j \in 1..Len(flake.check_files) :
             i # j => flake.check_files[i].relative_path # flake.check_files[j].relative_path
        /\ Len(AllChecks) = Len(Work)

\* a finished run with at least three check documents, two of one ecosystem
C6_Witness ==
    /\ pc = "done"
    /\ Len(flake.check_files) >= 3
    /\ \E i, j \in 1..Len(flake.check_files) :
         /\ i # j
         /\ flake.check_files[i].language = flake.check_files[j].language
    /\ \E i \in 1..Len(flake.check_files) : Len(flake.check_files[i].content) >= 2

PackageDocumentPath(doc) == <<Language_dir_name(doc.language), "/", "packages.nix">>

\* C7: the assembly document imports the package document of an ecosystem iff
\* it is generated, every generated check document and no other, and the
\* overlay document iff it is generated.
C7_AssemblyImportsExactlyGenerated ==
    pc = "done" =>
        /\ Range(flake.main_flake.package_imports)
             = {PackageDocumentPath(flake.language_packages[i]) :
                    i \in 1..Len(flake.language_packages)}
        /\ Len(flake.main_flake.package_imports) = Len(flake.language_packages)
        /\ Range(flake.main_flake.check_imports)
             = {flake.check_files[i].relative_path : i \in 1..Len(flake.check_files)}
        /\ Len(flake.main_flake.check_imports) = Len(flake.check_files)
        /\ (flake.main_flake.overlay_import # <<>>) <=> IsSome(flake.rust_overlay)

\* a finished run that generated package documents, check documents and the
\* overlay, with the JavaScript ecosystem needed
C7_Witness ==
    /\ pc = "done"
    /\ Len(flake.language_packages) >= 2
    /\ Len(flake.check_files) >= 2
    /\ IsSome(flake.rust_overlay)
    /\ \E i \in 1..Len(flake.language_packages) :
         flake.language_packages[i].language = "JavaScript"

UnversionedFallback == {<<"go">>, <<"python3">>, <<"nodejs">>, <<"latest">>}

\* C8: a package document that uses the unversioned fallback attribute
\* carries a non-empty notices list.
C8_FallbackCarriesNotice ==
    pc = "done" =>
        \A i \in 1..Len(flake.language_packages) :
            flake.language_packages[i].want \in UnversionedFallback
                => flake.language_packages[i].notices # <<>>

----------------------------------------------------------------------------
(* resolve_task_command on a package.json script, over the manifests and     *)
(* lockfiles a project may hold                                              *)

LockNames == {"bun.lockb", "bun.lock", "pnpm-lock.yaml", "yarn.lock", "package-lock.json"}

\* what fs::read_to_string, serde_json::from_str and get("packageManager")
\* may find in a package.json
ManifestContents ==
    {[readable |-> FALSE, json |-> FALSE, packageManager |-> None],
     [readable |-> TRUE, json |-> FALSE, packageManager |-> None],
     [readable |-> TRUE, json |-> TRUE, packageManager |-> None],
     [readable |-> TRUE, json |-> TRUE, packageManager |-> Some(<<"deno", "@", "2">>)],
     [readable |-> TRUE, json |-> TRUE, packageManager |-> Some(<<"@", "pnpm">>)],
     [readable |-> TRUE, json |-> TRUE, packageManager |-> Some(<<"npm">>)],
     [readable |-> TRUE, json |-> TRUE, packageManager |-> Some(<<"npm", "@", "1", "0">>)],
     [readable |-> TRUE, json |-> TRUE, packageManager |-> Some(<<"pnpm", "@", "9">>)],
     [readable |-> TRUE, json |-> TRUE, packageManager |-> Some(<<"yarn", "@", "4", "@", "1">>)],
     [readable |-> TRUE, json |-> TRUE, packageManager |-> Some(<<"bun">>)]}

ManifestPaths == {<<"/", "w", "/", "p">>, <<"/", "w", "/", "s", "/", "p">>}

\* the directories of the project other than the one of the manifest
OtherDirs(dir) == {Root, <<"/", "w", "/", "s">>, <<"/", "w", "/", "s", "/", "t">>} \ {dir}

\* a project with the manifest at path, the lockfiles own in its directory
\* and the lockfile other in every other directory
FsPm(path, content, own, other) ==
    LET dir == Unwrap(parent(path))
        found == {Root, <<"/", "w", "/", "s">>, <<"/", "w", "/", "s", "/", "t">>, path}
                 \cup {join(dir, n) : n \in own}
                 \cup {join(d, n) : d \in OtherDirs(dir), n \in other}
    IN [canon |-> [q \in found |-> q],
        manifest |-> [q \in {path} |-> content]]

InitPm ==
    /\ \E path \in ManifestPaths : \E content \in ManifestContents :
         \E own \in SUBSET LockNames : \E other \in {{}} \cup {{n} : n \in LockNames} :
            /\ fs = FsPm(path, content, own, other)
            /\ pm_job = TaskCommand(<<"test">>,
                                    PackageManagerScript(<<"test">>, <<"jest">>, path))
    /\ pm_out = None
    /\ GenIdle /\ EscIdle /\ ShIdle /\ DetIdle /\ CallIdle

ResolveTaskCommand ==
    /\ pm_job # <<>>
    /\ pm_out = None
    /\ pm_out' = Some(resolve_task_command(pm_job, Root))
    /\ UNCHANGED <<pm_job, genVars, escVars, shVars, detVars, callVars>>

NextPm == ResolveTaskCommand

SpecPm == InitPm /\ [][NextPm]_vars

\* the manager named by the manifest of the command, when it is one of the
\* four recognized names, alone or followed by @version
FieldManagers ==
    LET m == fs.manifest[pm_job.executable.package_json_path]
        named(n) == /\ m.readable /\ m.json /\ IsSome(m.packageManager)
                    /\ \/ Unwrap(m.packageManager) = <<n>>
                       \/ IsPrefixOf(<<n, "@">>, Unwrap(m.packageManager))
    IN (IF named("npm") THEN {"Npm"} ELSE {}) \cup (IF named("pnpm") THEN {"Pnpm"} ELSE {})
       \cup (IF named("yarn") THEN {"Yarn"} ELSE {}) \cup (IF named("bun") THEN {"Bun"} ELSE {})

LockfilePriority == <<"Bun", "Pnpm", "Yarn", "Npm">>

\* the managers implied by the lockfiles of the directory of the manifest
LockfileManagers ==
    LET dir == Unwrap(parent(pm_job.executable.package_json_path))
        has(n) == (dir \o <<"/", n>>) \in DOMAIN fs.canon
    IN (IF has("bun.lockb") \/ has("bun.lock") THEN {"Bun"} ELSE {})
       \cup (IF has("pnpm-lock.yaml") THEN {"Pnpm"} ELSE {})
       \cup (IF has("yarn.lock") THEN {"Yarn"} ELSE {})
       \cup (IF has("package-lock.json") THEN {"Npm"} ELSE {})

ExpectedManager ==
    IF FieldManagers # {} THEN CHOOSE pm \in FieldManagers : TRUE
    ELSE IF LockfileManagers # {}
         THEN LockfilePriority[CHOOSE i \in 1..4 :
                                  /\ LockfilePriority[i] \in LockfileManagers
                                  /\ \A j \in 1..(i - 1) : LockfilePriority[j] \notin LockfileManagers]
         ELSE "Npm"

ManagerWord(pm) ==
    CASE pm = "Npm" -> "npm" [] pm = "Pnpm" -> "pnpm" [] pm = "Yarn" -> "yarn" [] pm = "Bun" -> "bun"

\* C4: the manager that renders a PackageManagerScript command is the
\* recognized manager of the manifest's packageManager field, else the one
\* implied by the lockfiles of the manifest's own directory (bun > pnpm > yarn
\* > npm), else npm; lockfiles never override the field and lockfiles of
\* other directories are not consulted.
C4_ManagerByPriority ==
    IsSome(pm_out) =>
        /\ Cardinality(FieldManagers) <= 1
        /\ Unwrap(pm_out).pm_used = Some(ExpectedManager)
        /\ Unwrap(pm_out).info.required_exec = <<ManagerWord(ExpectedManager)>>
        /\ Unwrap(pm_out).info.command
             = <<ManagerWord(ExpectedManager), " ", "run", " ">> \o pm_job.executable.script_name

\* a resolved command whose manifest names yarn while its directory holds a
\* bun lockfile and another directory holds a pnpm lockfile
C4_Witness ==
    /\ IsSome(pm_out)
    /\ FieldManagers = {"Yarn"}
    /\ "Bun" \in LockfileManagers
    /\ \E d \in OtherDirs(Unwrap(parent(pm_job.executable.package_json_path))) :
         join(d, "pnpm-lock.yaml") \in DOMAIN fs.canon
    /\ Unwrap(pm_out).pm_used = Some("Yarn")

----------------------------------------------------------------------------
(* generation/nix_builder.rs: escape_nix_string.  Here a text is a sequence  *)
(* of characters.                                                            *)

MaxLen == 4

EscChars == {"\\", "\"", "\n", "\r", "\t", "$", "{", "a", "n"}

Texts(n) == UNION {[1..k -> EscChars] : k \in 0..n}

\* one turn of the loop: what is pushed for ch when chars.peek() is peek
EscapeChar_BackslashRaw(ch, peek) ==
    CASE ch = "\"" -> <<"\\", "\"">>
      [] ch = "\n" -> <<"\\", "n">>
      [] ch = "\r" -> <<"\\", "r">>
      [] ch = "\t" -> <<"\\", "t">>
      [] ch = "$" /\ peek = Some("{") -> <<"\\", "$">>
      [] OTHER -> <<ch>>

EscapeChar(ch, peek) ==
    CASE ch = "\\" -> <<"\\", "\\">>
      [] ch = "\"" -> <<"\\", "\"">>
      [] ch = "\n" -> <<"\\", "n">>
      [] ch = "\r" -> <<"\\", "r">>
      [] ch = "\t" -> <<"\\", "t">>
      [] ch = "$" /\ peek = Some("{") -> <<"\\", "$">>
      [] OTHER -> <<ch>>

RECURSIVE escape_nix_string(_)
escape_nix_string(input) ==
    IF input = <<>> THEN <<>>
    ELSE EscapeChar(Head(input), IF Len(input) > 1 THEN Some(input[2]) ELSE None)
         \o escape_nix_string(Tail(input))

InitEsc ==
    /\ esc_in \in Texts(MaxLen)
    /\ esc_out = None
    /\ GenIdle /\ fs = <<>> /\ PmIdle /\ ShIdle /\ DetIdle /\ CallIdle

Escape ==
    /\ esc_out = None
    /\ esc_out' = Some(escape_nix_string(esc_in))
    /\ UNCHANGED <<esc_in, genVars, pmVars, shVars, detVars, callVars>>

NextEsc == Escape

SpecEsc == InitEsc /\ [][NextEsc]_vars

\* the character a backslash followed by c stands for in a double-quoted
\* string of the target language
Escaped(c) ==
    CASE c = "n" -> "\n" [] c = "r" -> "\r" [] c = "t" -> "\t" [] OTHER -> c

\* the string a double-quoted literal with this body denotes; a backslash
\* with nothing after it denotes no string
RECURSIVE Unescape(_)
Unescape(text) ==
    IF text = <<>> THEN <<>>
    ELSE IF Head(text) = "\\"
         THEN IF Len(text) = 1 THEN <<"dangling backslash">>
              ELSE <<Escaped(text[2])>> \o Unescape(SubSeq(text, 3, Len(text)))
         ELSE <<Head(text)>> \o Unescape(Tail(text))

\* the positions of text, from i on, that are neither a backslash that
\* escapes nor the character it escapes
RECURSIVE Unescaped(_, _)
Unescaped(text, i) ==
    IF i > Len(text) THEN {}
    ELSE IF text[i] = "\\" THEN Unescaped(text, i + 2)
    ELSE {i} \cup Unescaped(text, i + 1)

\* C9: unescaping the output of escape_nix_string by the rules of the target
\* language's double-quoted strings gives back the input (so the function is
\* injective), and the output has no unescaped double quote, no raw newline,
\* carriage return or tab, and no unescaped $ followed by {.
C9_EscapeRoundTrip ==
    IsSome(esc_out) =>
        LET out == Unwrap(esc_out)
        IN /\ Unescape(out) = esc_in
           /\ \A i \in Unescaped(out, 1) :
                /\ out[i] \notin {"\"", "\n", "\r", "\t"}
                /\ out[i] = "$" => (i = Len(out) \/ out[i + 1] # "{")

\* an escaped text in which a backslash is followed by a letter that names
\* an escape, and a $ is followed by {
C9_Witness ==
    /\ IsSome(esc_out)
    /\ \E i \in 1..(Len(esc_in) - 1) : esc_in[i] = "\\" /\ esc_in[i + 1] = "n"
    /\ \E i \in 1..(Len(esc_in) - 1) : esc_in[i] = "$" /\ esc_in[i + 1] = "{"
    /\ Len(Unwrap(esc_out)) = Len(esc_in) + 2

----------------------------------------------------------------------------
(* generation/nix_builder.rs: the script CheckDerivationBuilder::build      *)
(* writes, and the shell running it                                         *)

Line(op, arg) == [op |-> op, arg |-> arg]

\* the lines of the builder script, ${...} replaced by what it stands for
CheckDerivationBuilder_build_NoErrexit(c) ==
    <<Line("export", <<"HOME">>),
      Line("mkdir", <<"$HOME">>),
      Line("echo", <<"autonix: running ">> \o c.display),
      Line("if ! command -v", c.required_exec),
      Line("echo", <<"autonix: missing required executable in PATH: ">> \o c.required_exec),
      Line("exit", <<"1">>),
      Line("fi", <<>>),
      Line("cp", <<"projectRoot", " ", "source">>),
      Line("chmod", <<"source">>),
      Line("cd", <<"source/">> \o c.workdir),
      Line("bash", c.command),
      Line("mkdir", <<"$out">>),
      Line("echo ok >", <<"$out/result">>)>>

CheckDerivationBuilder_build(c) ==
    <<Line("set", <<"-euo", " ", "pipefail">>),
      Line("export", <<"HOME">>),
      Line("mkdir", <<"$HOME">>),
      Line("echo", <<"autonix: running ">> \o c.display),
      Line("if ! command -v", c.required_exec),
      Line("echo", <<"autonix: missing required executable in PATH: ">> \o c.required_exec),
      Line("exit", <<"1">>),
      Line("fi", <<>>),
      Line("cp", <<"projectRoot", " ", "source">>),
      Line("chmod", <<"source">>),
      Line("cd", <<"source/">> \o c.workdir),
      Line("bash", c.command),
      Line("mkdir", <<"$out">>),
      Line("echo ok >", <<"$out/result">>)>>

\* checks as build_check_spec makes them
CheckSpecs ==
    {[display |-> <<"make", " ", "test">>, required_exec |-> <<"make">>,
      command |-> <<"make", " ", "test">>, workdir |-> <<".">>],
     [display |-> <<"cargo", " ", "build">>, required_exec |-> <<"cargo">>,
      command |-> <<"cargo", " ", "build">>, workdir |-> <<".">>],
     [display |-> <<"go", " ", "test", " ", "./...">>, required_exec |-> <<"go">>,
      command |-> <<"go", " ", "test", " ", "./...">>, workdir |-> <<".">>],
     [display |-> <<"invoke", " ", "test">>, required_exec |-> <<"invoke">>,
      command |-> <<"invoke", " ", "test">>, workdir |-> <<".">>],
     [display |-> <<"pnpm", " ", "run", " ", "test", " ", " ", "#", " ", "jest">>,
      required_exec |-> <<"pnpm">>,
      command |-> <<"pnpm", " ", "run", " ", "test">>, workdir |-> <<"s">>],
     [display |-> <<"npm", " ", "run", " ", "build", " ", " ", "#", " ", "jest">>,
      required_exec |-> <<"npm">>,
      command |-> <<"npm", " ", "run", " ", "build">>, workdir |-> <<".">>]}

InitSh ==
    /\ check \in CheckSpecs
    /\ script = CheckDerivationBuilder_build(check)
    /\ sh_pc = 1
    /\ sh_errexit = FALSE
    /\ sh_status = "running"
    /\ sh_trace = <<>>
    /\ sentinel = FALSE
    /\ GenIdle /\ fs = <<>> /\ PmIdle /\ EscIdle /\ DetIdle /\ CallIdle

Running == sh_status = "running" /\ sh_pc <= Len(script)

Ran(ok) == Append(sh_trace, [op |-> script[sh_pc].op, arg |-> script[sh_pc].arg, ok |-> ok])

\* set -euo pipefail
ShSet ==
    /\ Running /\ script[sh_pc].op = "set"
    /\ sh_errexit' = TRUE
    /\ sh_pc' = sh_pc + 1
    /\ UNCHANGED <<check, script, sh_status, sh_trace, sentinel>>
    /\ UNCHANGED <<genVars, pmVars, escVars, detVars, callVars>>

\* a command that succeeds or fails; under set -e a failure ends the script
ShCommand ==
    /\ Running /\ script[sh_pc].op \in {"export", "mkdir", "echo", "cp", "chmod", "cd", "bash"}
    /\ \E ok \in BOOLEAN :
         /\ sh_trace' = Ran(ok)
         /\ sh_status' = IF ~ok /\ sh_errexit THEN "failed" ELSE sh_status
    /\ sh_pc' = sh_pc + 1
    /\ UNCHANGED <<check, script, sh_errexit, sentinel>>
    /\ UNCHANGED <<genVars, pmVars, escVars, detVars, callVars>>

\* if ! command -v ...; then: the body runs when the executable is not found
ShIfNotCommand ==
    /\ Running /\ script[sh_pc].op = "if ! command -v"
    /\ \E found \in BOOLEAN :
         /\ sh_trace' = Ran(found)
         /\ sh_pc' = IF found
                     THEN 1 + CHOOSE i \in sh_pc..Len(script) :
                                 /\ script[i].op = "fi"
                                 /\ \A j \in sh_pc..(i - 1) : script[j].op # "fi"
                     ELSE sh_pc + 1
    /\ UNCHANGED <<check, script, sh_errexit, sh_status, sentinel>>
    /\ UNCHANGED <<genVars, pmVars, escVars, detVars, callVars>>

\* exit 1
ShExit ==
    /\ Running /\ script[sh_pc].op = "exit"
    /\ sh_status' = "failed"
    /\ UNCHANGED <<check, script, sh_pc, sh_errexit, sh_trace, sentinel>>
    /\ UNCHANGED <<genVars, pmVars, escVars, detVars, callVars>>

\* echo ok > $out/result: the redirection creates the file, then echo writes
ShWriteResult ==
    /\ Running /\ script[sh_pc].op = "echo ok >"
    /\ \E created \in BOOLEAN : \E ok \in BOOLEAN :
         /\ ok => created
         /\ sentinel' = created
         /\ sh_trace' = Ran(ok)
         /\ sh_status' = IF ~ok /\ sh_errexit THEN "failed" ELSE sh_status
    /\ sh_pc' = sh_pc + 1
    /\ UNCHANGED <<check, script, sh_errexit>>
    /\ UNCHANGED <<genVars, pmVars, escVars, detVars, callVars>>

\* the end of the script: its status is that of the last command
ShEnd ==
    /\ sh_status = "running" /\ sh_pc > Len(script)
    /\ sh_status' = IF sh_trace[Len(sh_trace)].ok THEN "succeeded" ELSE "failed"
    /\ UNCHANGED <<check, script, sh_pc, sh_errexit, sh_trace, sentinel>>
    /\ UNCHANGED <<genVars, pmVars, escVars, detVars, callVars>>

NextSh == ShSet \/ ShCommand \/ ShIfNotCommand \/ ShExit \/ ShWriteResult \/ ShEnd

SpecSh == InitSh /\ [][NextSh]_vars

\* the five steps of a check, as the trace of the shell shows them
StepOf(e) ==
    CASE e.op = "if ! command -v" -> [step |-> "verify", arg |-> e.arg]
      [] e.op = "cp" -> [step |-> "copy", arg |-> <<>>]
      [] e.op = "cd" -> [step |-> "chdir", arg |-> e.arg]
      [] e.op = "bash" -> [step |-> "run", arg |-> e.arg]
      [] e.op = "echo ok >" -> [step |-> "sentinel", arg |-> <<>>]
      [] OTHER -> [step |-> "other", arg |-> <<>>]

Steps ==
    LET all == [i \in 1..Len(sh_trace) |-> StepOf(sh_trace[i])]
        IsStep(e) == e.step # "other"
    IN SelectSeq(all, IsStep)

StepOrder ==
    <<[step |-> "verify", arg |-> check.required_exec],
      [step |-> "copy", arg |-> <<>>],
      [step |-> "chdir", arg |-> <<"source/">> \o check.workdir],
      [step |-> "run", arg |-> check.command],
      [step |-> "sentinel", arg |-> <<>>]>>

Failed(op) == \E i \in 1..Len(sh_trace) : sh_trace[i].op = op /\ ~sh_trace[i].ok

\* C3: a check verifies its executable, copies the project, changes into the
\* working directory, runs the command and writes the sentinel, in this
\* order; the sentinel is written only if every earlier step succeeded, and
\* when the executable is missing or the command fails the check fails and
\* no sentinel is written.
C3_StepsInOrderSentinelOnSuccess ==
    /\ IsPrefixOf(Steps, StepOrder)
    /\ sentinel => \A i \in 1..(Len(sh_trace) - 1) : sh_trace[i].ok
    /\ sh_status = "succeeded" => sentinel /\ Steps = StepOrder
    /\ (Failed("if ! command -v") \/ Failed("bash")) =>
          /\ ~sentinel
          /\ sh_status # "succeeded"
          /\ sh_pc > Len(script) => sh_status = "failed"

\* a check that ran all its steps and succeeded
C3_Witness ==
    /\ sh_status = "succeeded"
    /\ sentinel
    /\ Steps = StepOrder
    /\ check.workdir = <<"s">>

----------------------------------------------------------------------------
(* detection/mod.rs, detection/language.rs: the walker and                  *)
(* detect_with_scope.  A file name is the sequence of its stem, "." and its *)
(* extension; a path is the root followed by "/" and a name, repeatedly.    *)

MaxEntries == 2
Runs == 2

FileName(stem, ext) == <<stem, ".", ext>>

\* Path::file_name: the last component
file_name(path) ==
    LET slashes == {i \in 1..Len(path) : path[i] = "/"}
    IN IF slashes = {} THEN path
       ELSE SubSeq(path, 1 + (CHOOSE i \in slashes : \A j \in slashes : j <= i), Len(path))

\* Path::extension: what follows the last dot of the file name, unless the
\* name has no dot or its only dot is the first character
extension(path) ==
    LET name == file_name(path)
        dots == {i \in 1..Len(name) : name[i] = "."}
        last == CHOOSE i \in dots : \A j \in dots : j <= i
    IN IF dots = {} \/ last = 1 THEN None
       ELSE Some(SubSeq(name, last + 1, Len(name)))

StrongSource(filename) ==
    CASE filename = <<"go", ".", "mod">> -> Some("GoMod")
      [] filename = <<"go", ".", "work">> -> Some("GoWork")
      [] filename = <<"go", ".", "sum">> -> Some("GoSum")
      [] filename = <<".", "go-version">> -> Some("GoVersionFile")
      [] filename = <<"Cargo", ".", "toml">> -> Some("CargoToml")
      [] filename = <<"Cargo", ".", "lock">> -> Some("CargoLock")
      [] filename = <<"rust-toolchain">> -> Some("RustToolchain")
      [] filename = <<"rust-toolchain", ".", "toml">> -> Some("RustToolchainToml")
      [] filename = <<"requirements", ".", "txt">> -> Some("RequirementsTxt")
      [] filename = <<"pyproject", ".", "toml">> -> Some("PyprojectToml")
      [] filename = <<"Pipfile">> -> Some("Pipfile")
      [] filename = <<"Pipfile", ".", "lock">> -> Some("PipfileLock")
      [] filename = <<"poetry", ".", "lock">> -> Some("PoetryLock")
      [] filename = <<"setup", ".", "py">> -> Some("SetupPy")
      [] filename = <<"setup", ".", "cfg">> -> Some("SetupCfg")
      [] filename = <<"environment", ".", "yml">> -> Some("EnvironmentYml")
      [] filename = <<".", "python-version">> -> Some("PythonVersionFile")
      [] filename = <<"package", ".", "json">> -> Some("PackageJson")
      [] filename = <<"package-lock", ".", "json">> -> Some("PackageLockJson")
      [] filename = <<"yarn", ".", "lock">> -> Some("YarnLock")
      [] filename = <<"pnpm-lock", ".", "yaml">> -> Some("PnpmLockYaml")
      [] filename = <<"bun", ".", "lock">> -> Some("BunLock")
      [] filename = <<"bun", ".", "lockb">> -> Some("BunLockb")
      [] filename = <<"deno", ".", "lock">> -> Some("DenoLock")
      [] filename = <<"lock", ".", "json">> -> Some("LockJson")
      [] filename = <<"deno", ".", "json">> -> Some("DenoJson")
      [] filename = <<"deno", ".", "jsonc">> -> Some("DenoJsonc")
      [] filename = <<"tsconfig", ".", "json">> -> Some("TsConfig")
      [] filename = <<"jsconfig", ".", "json">> -> Some("JsConfig")
      [] filename = <<".", "nvmrc">> -> Some("NvmrcFile")
      [] filename = <<".", "node-version">> -> Some("NodeVersionFile")
      [] filename = <<".", "bun-version">> -> Some("BunVersionFile")
      [] OTHER -> None

WeakSource(ext) ==
    CASE ext = Some(<<"go">>) -> Some("GoFile")
      [] ext = Some(<<"rs">>) -> Some("RsFile")
      [] ext = Some(<<"py">>) -> Some("PyFile")
      [] ext = Some(<<"js">>) -> Some("JsFile")
      [] ext = Some(<<"mjs">>) -> Some("MjsFile")
      [] ext = Some(<<"cjs">>) -> Some("CjsFile")
      [] ext = Some(<<"ts">>) -> Some("TsFile")
      [] ext = Some(<<"jsx">>) -> Some("JsxFile")
      [] ext = Some(<<"tsx">>) -> Some("TsxFile")
      [] OTHER -> None

Strong(path, source) == [kind |-> "Strong", path |-> path, source |-> source]
Weak(source) == [kind |-> "Weak", source |-> source]

\* only a regular file gives a signal
LanguageDetectionSignal_try_from_FilesOnly(path) ==
    IF path \notin tree.files THEN None
    ELSE IF IsSome(StrongSource(file_name(path)))
    THEN Some(Strong(path, Unwrap(StrongSource(file_name(path)))))
    ELSE IF IsSome(WeakSource(extension(path)))
         THEN Some(Weak(Unwrap(WeakSource(extension(path)))))
         ELSE None

LanguageDetectionSignal_try_from(path) ==
    IF IsSome(StrongSource(file_name(path)))
    THEN Some(Strong(path, Unwrap(StrongSource(file_name(path)))))
    ELSE IF IsSome(WeakSource(extension(path)))
         THEN Some(Weak(Unwrap(WeakSource(extension(path)))))
         ELSE None

Language_from(source) ==
    IF source \in {"GoMod", "GoWork", "GoSum", "GoVersionFile", "GoFile"} THEN "Go"
    ELSE IF source \in {"CargoToml", "CargoLock", "RustToolchain", "RustToolchainToml",
                        "RsFile"} THEN "Rust"
    ELSE IF source \in {"RequirementsTxt", "PyprojectToml", "Pipfile", "PipfileLock",
                        "PoetryLock", "SetupPy", "SetupCfg", "EnvironmentYml",
                        "PythonVersionFile", "PyFile"} THEN "Python"
    ELSE "JavaScript"

\* sources.retain: every strong signal, and the first weak one of each source
RECURSIVE RetainSignals(_, _)
RetainSignals(sources, seen_weak) ==
    IF sources = <<>> THEN <<>>
    ELSE IF Head(sources).kind = "Strong"
         THEN <<Head(sources)>> \o RetainSignals(Tail(sources), seen_weak)
         ELSE IF Head(sources).source \in seen_weak
              THEN RetainSignals(Tail(sources), seen_weak)
              ELSE <<Head(sources)>>
                   \o RetainSignals(Tail(sources), seen_weak \cup {Head(sources).source})

LanguageDetection_new_KeepsAll(language, sources) ==
    [language |-> language, sources |-> sources]

LanguageDetection_new(language, sources) ==
    [language |-> language, sources |-> RetainSignals(sources, {})]

\* the files of the tree have this content: Cargo.toml declares
\* rust-version = "1.70.0", go.mod has the directive go 1.21, package.json
\* has the script test and neither engines nor packageManager
VersionInfos_try_from(signal) ==
    LET versions == IF signal.kind = "Weak" THEN <<>>
                    ELSE CASE signal.source = "CargoToml" -> <<VPatch("Rust")>>
                           [] signal.source = "GoMod" -> <<VMajorMinor("Go")>>
                           [] OTHER -> <<>>
    IN IF versions = <<>> THEN None ELSE Some(versions)

PackageManagerInfos_try_from(signal) ==
    LET package_managers ==
          IF signal.kind = "Weak" THEN <<>>
          ELSE CASE signal.source = "CargoToml" ->
                      <<[package_manager |-> "Cargo", source |-> "CargoToml",
                         path |-> signal.path, version |-> None]>>
                 [] signal.source = "GoMod" ->
                      <<[package_manager |-> "Go", source |-> "GoMod",
                         path |-> signal.path, version |-> None]>>
                 [] OTHER -> <<>>
    IN IF package_managers = <<>> THEN None ELSE Some(package_managers)

\* Iterator::flatten over a list of lists; as an Option is a list of at most
\* one element, filter_map(f) is the flattened list of the f(x)
RECURSIVE Flatten(_)
Flatten(lists) == IF lists = <<>> THEN <<>> ELSE Head(lists) \o Flatten(Tail(lists))

VersionDetection_try_from(lang_detection) ==
    LET versions == Flatten(Flatten([i \in 1..Len(lang_detection.sources) |->
                                        VersionInfos_try_from(lang_detection.sources[i])]))
    IN IF versions = <<>> THEN None
       ELSE Some([language |-> lang_detection.language, versions |-> versions])

PackageManagerDetection_try_from(lang_detection) ==
    LET package_managers ==
          Flatten(Flatten([i \in 1..Len(lang_detection.sources) |->
                              PackageManagerInfos_try_from(lang_detection.sources[i])]))
    IN IF package_managers = <<>> THEN None
       ELSE Some([language |-> lang_detection.language,
                  package_managers |-> package_managers])

TaskRunnerSource_of(filename) ==
    CASE filename \in {<<"Makefile">>, <<"makefile">>, <<"GNUmakefile">>} -> Some("Makefile")
      [] filename \in {<<"justfile">>, <<"Justfile">>} -> Some("Justfile")
      [] filename = <<"package", ".", "json">> -> Some("PackageJson")
      [] filename = <<"vite", ".", "config", ".", "js">> -> Some("ViteConfigJs")
      [] filename \in {<<"invoke", ".", "yaml">>, <<"invoke", ".", "yml">>} -> Some("InvokeYaml")
      [] filename = <<"Cargo", ".", "toml">> -> Some("CargoToml")
      [] filename = <<"go", ".", "mod">> -> Some("GoMod")
      [] OTHER -> None

TaskRunnerFile_try_from(path) ==
    IF path \notin tree.files THEN None
    ELSE IF ~IsSome(TaskRunnerSource_of(file_name(path))) THEN None
    ELSE Some([source |-> Unwrap(TaskRunnerSource_of(file_name(path))),
               path |-> path,
               names |-> IF file_name(path) = <<"package", ".", "json">>
                         THEN <<<<"test">>>> ELSE <<>>])

\* the orders in which the elements of a set may come
Orders(S) ==
    {o \in [1..Cardinality(S) -> S] : \A i, j \in 1..Cardinality(S) : i # j => o[i] # o[j]}

\* the fold: the entry of lang holds the signals of lang, in their order
EntryOf_Everything(signals, lang) == signals

EntryOf(signals, lang) ==
    LET IsOfLang(sig) == Language_from(sig.source) = lang
    IN SelectSeq(signals, IsOfLang)

\* detect_with_scope once paths is collected; into_iter gives the entries of
\* the hash map in the order order
detect_with_scope(collected, order) ==
    LET signals == Flatten([i \in 1..Len(collected) |->
                               LanguageDetectionSignal_try_from(collected[i])])
        languages == [i \in 1..Len(order) |->
                         LanguageDetection_new(order[i], EntryOf(signals, order[i]))]
        files == Flatten([i \in 1..Len(collected) |-> TaskRunnerFile_try_from(collected[i])])
    IN [languages |-> languages,
        versions |-> Flatten([i \in 1..Len(languages) |->
                                 VersionDetection_try_from(languages[i])]),
        package_managers |-> Flatten([i \in 1..Len(languages) |->
                                         PackageManagerDetection_try_from(languages[i])]),
        task_runners |-> [i \in 1..Len(files) |-> TaskRunnerDetection_from(files[i])]]

\* the keys of the hash map the signals are folded into
DetectedLanguages(collected) ==
    LET signals == Flatten([i \in 1..Len(collected) |->
                               LanguageDetectionSignal_try_from(collected[i])])
    IN {Language_from(signals[i].source) : i \in 1..Len(signals)}

IGNORED_DIR_BASENAMES ==
    {<<".", "git">>, <<".", "hg">>, <<".", "svn">>,
     <<"node_modules">>, <<".", "yarn">>, <<".", "pnpm-store">>, <<".", "turbo">>,
     <<".", "nx">>, <<".", "next">>, <<".", "nuxt">>, <<".", "svelte-kit">>,
     <<".", "parcel-cache">>,
     <<"target">>,
     <<".", "venv">>, <<"venv">>, <<"env">>, <<"__pycache__">>, <<".", "tox">>,
     <<".", "nox">>, <<".", "pytest_cache">>, <<".", "mypy_cache">>, <<".", "ruff_cache">>,
     <<"dist">>, <<"build">>, <<"out">>, <<"coverage">>, <<".", "cache">>,
     <<".", "direnv">>, <<".", "idea">>, <<".", "vscode">>, <<"vendor">>,
     <<".", "terraform">>}

should_ignore_dir_Never(path) == FALSE

should_ignore_dir(path) == file_name(path) \in IGNORED_DIR_BASENAMES

\* the trees detection is run on
RootEntries ==
    {FileName("Cargo", "toml"), FileName("package", "json"), FileName("a", "py"),
     <<"s">>, <<"target">>}

SubEntries(name) ==
    CASE name = <<"s">> -> {FileName("b", "py"), FileName("go", "mod")}
      [] name = <<"target">> -> {FileName("x", "rs")}
      [] name = <<"d">> -> {<<"build">>}
      [] name = <<"build">> -> {FileName("c", "py"), FileName("Cargo", "toml")}
      [] OTHER -> {}

TreeOf(entries, unreadable) ==
    LET top == {Root \o <<"/">> \o n : n \in entries}
        sub == UNION {{Root \o <<"/">> \o n \o <<"/">> \o m : m \in SubEntries(n)} :
                      n \in entries}
        dirs == {Root} \cup {p \in top : file_name(p) \in {<<"s">>, <<"target">>}}
    IN [dirs |-> dirs, files |-> (top \cup sub) \ dirs, unreadable |-> unreadable \cap dirs]

Children_FilesOnly(p) == {q \in tree.files : parent(q) = Some(p)}

Children(p) == {q \in tree.dirs \cup tree.files : parent(q) = Some(p)}

DirectoryIterator_new_Empty(root) == <<>>

DirectoryIterator_new(root) == <<root>>

\* the listing never fails
read_dir_AlwaysOk(p) == Some(Children(p))

\* Path::read_dir: the entries of the directory, unless the listing fails
read_dir(p) == IF p \in tree.unreadable THEN None ELSE Some(Children(p))

\* the root is listed whatever its name
Expands_RootWhateverItsName(p) ==
    /\ scope = "All" \/ p = self_root
    /\ p \in tree.dirs
    /\ p = self_root \/ ~should_ignore_dir(p)
    /\ IsSome(read_dir(p))

\* whether next pushes the entries of p: the conditions of the two arms
Expands_AnyScope(p) ==
    /\ p \in tree.dirs
    /\ ~should_ignore_dir(p)
    /\ IsSome(read_dir(p))

Expands(p) ==
    /\ scope = "All" \/ p = self_root
    /\ p \in tree.dirs
    /\ ~should_ignore_dir(p)
    /\ IsSome(read_dir(p))

InitD ==
    /\ \E entries \in {e \in SUBSET RootEntries : Cardinality(e) <= MaxEntries} :
         \E unreadable \in SUBSET {Root \o <<"/", "s">>} :
            tree = TreeOf(entries, unreadable)
    /\ scope \in {"All", "Root"}
    /\ self_root = Root
    /\ run = 1
    /\ queue = DirectoryIterator_new(self_root)
    /\ paths = <<>>
    /\ results = <<>>
    /\ GenIdle /\ fs = <<>> /\ PmIdle /\ EscIdle /\ ShIdle /\ CallIdle

\* the entries are pushed in front of the queue
push_back_all_Front(q, entries) == entries \o q

\* for_each(|entry| self.queue.push_back(entry.path()))
push_back_all(q, entries) == q \o entries

\* DirectoryIterator::next, and collect() taking what it yields
WalkNext ==
    /\ run \in 1..Runs
    /\ queue # <<>>
    /\ LET p == Head(queue)
       IN /\ \E entries \in Orders(IF Expands(p) THEN Children(p) ELSE {}) :
               queue' = push_back_all(Tail(queue), entries)
          /\ paths' = Append(paths, p)
    /\ UNCHANGED <<tree, scope, self_root, run, results>>
    /\ UNCHANGED <<genVars, pmVars, escVars, shVars, callVars>>

\* detect_with_scope from the end of the walk to its return; the next run
\* starts over the same tree
DetectWithScope ==
    /\ run \in 1..Runs
    /\ queue = <<>>
    /\ \E order \in Orders(DetectedLanguages(paths)) :
          results' = Append(results, detect_with_scope(paths, order))
    /\ run' = run + 1
    /\ queue' = IF run < Runs THEN DirectoryIterator_new(self_root) ELSE <<>>
    /\ paths' = <<>>
    /\ UNCHANGED <<tree, scope, self_root>>
    /\ UNCHANGED <<genVars, pmVars, escVars, shVars, callVars>>

NextD == WalkNext \/ DetectWithScope

SpecD == InitD /\ [][NextD]_vars

\* C10: two runs of detect_with_scope over the same unchanged tree, with the
\* same root and scope, give identical results, with the LanguageDetection
\* records, their signals and the version records in the same order.
C10_DetectionDeterministic ==
    \A i, j \in 1..Len(results) : results[i] = results[j]

----------------------------------------------------------------------------
(* detection/language.rs: LanguageDetection::new called on a list of signals *)

MaxSignals == 5

\* no part of the program is running except the function being called
OnlyCall ==
    /\ GenIdle /\ fs = <<>> /\ PmIdle /\ EscIdle /\ ShIdle /\ DetIdle

SampleSignals ==
    {Weak("PyFile"), Weak("JsFile"),
     Strong(Root \o <<"/">> \o FileName("package", "json"), "PackageJson"),
     Strong(Root \o <<"/", "s", "/">> \o FileName("package", "json"), "PackageJson")}

InitLd ==
    /\ args \in UNION {[1..k -> SampleSignals] : k \in 0..MaxSignals}
    /\ ret = None
    /\ OnlyCall

NewLanguageDetection ==
    /\ ret = None
    /\ ret' = Some(LanguageDetection_new("JavaScript", args))
    /\ UNCHANGED <<args, genVars, pmVars, escVars, shVars, detVars>>

NextLd == NewLanguageDetection

SpecLd == InitLd /\ [][NextLd]_vars

StrongOf(sources) == LET IsStrong(sig) == sig.kind = "Strong" IN SelectSeq(sources, IsStrong)

WeakCount(sources, tag) ==
    Cardinality({i \in 1..Len(sources) : sources[i].kind = "Weak" /\ sources[i].source = tag})

\* C11: LanguageDetection::new keeps every Strong signal, in order and with
\* its multiplicity, and keeps each Weak source tag of the input exactly once.
C11_WeakOncePerTagStrongAllKept ==
    IsSome(ret) =>
        /\ StrongOf(Unwrap(ret).sources) = StrongOf(args)
        /\ \A tag \in {"PyFile", "JsFile"} :
             WeakCount(Unwrap(ret).sources, tag) = IF WeakCount(args, tag) > 0 THEN 1 ELSE 0
        /\ Len(Unwrap(ret).sources)
             = Len(StrongOf(args))
               + Cardinality({tag \in {"PyFile", "JsFile"} : WeakCount(args, tag) > 0})

\* a call whose input repeats a Weak tag, holds another Weak tag, and holds
\* the same Strong signal twice
C11_Witness ==
    /\ IsSome(ret)
    /\ WeakCount(args, "PyFile") >= 2
    /\ WeakCount(args, "JsFile") = 1
    /\ \E i, j \in 1..Len(args) : i # j /\ args[i].kind = "Strong" /\ args[i] = args[j]
    /\ Len(Unwrap(ret).sources) = 4

----------------------------------------------------------------------------
(* detection/mod.rs: one run of detect_with_scope over deeper trees, over a
   root that is a file and over a root that does not exist *)

MaxEntriesW == 3

RootEntriesW == RootEntries \cup {<<"d">>}

DirNames == {<<"s">>, <<"target">>, <<"d">>, <<"build">>}

RECURSIVE Under(_, _)
\* the entry named name of the directory p, and all that is beneath it
Under(p, name) ==
    LET q == p \o <<"/">> \o name
    IN {q} \cup UNION {Under(q, m) : m \in SubEntries(name)}

TreeW(kind, entries, unreadable) ==
    IF kind = "missing" THEN [dirs |-> {}, files |-> {}, unreadable |-> {}]
    ELSE IF kind = "file" THEN [dirs |-> {}, files |-> {Root}, unreadable |-> {}]
    ELSE LET all == UNION {Under(Root, n) : n \in entries}
             dirs == {Root} \cup {q \in all : file_name(q) \in DirNames}
         IN [dirs |-> dirs, files |-> all \ dirs, unreadable |-> unreadable \cap dirs]

UnreadableSets == {{}, {Root \o <<"/", "s">>}, {Root \o <<"/", "d">>}, {Root}}

InitW ==
    /\ \/ \E entries \in {e \in SUBSET RootEntriesW : Cardinality(e) <= MaxEntriesW} :
            \E unreadable \in UnreadableSets :
               tree = TreeW("dir", entries, unreadable)
       \/ tree \in {TreeW("missing", {}, {}), TreeW("file", {}, {})}
    /\ scope \in {"All", "Root"}
    /\ self_root = Root
    /\ run = Runs
    /\ queue = DirectoryIterator_new(self_root)
    /\ paths = <<>>
    /\ results = <<>>
    /\ GenIdle /\ fs = <<>> /\ PmIdle /\ EscIdle /\ ShIdle /\ CallIdle

SpecW == InitW /\ [][NextD]_vars

\* the signals of the collected paths, in the order of the paths
SignalsOf(collected) ==
    Flatten([i \in 1..Len(collected) |-> LanguageDetectionSignal_try_from(collected[i])])

\* C12: when detect_with_scope returns, its languages hold at most one
\* LanguageDetection per ecosystem, each with a non-empty list of signals that
\* all map to the ecosystem of their detection, and the signal of every
\* collected path that classifies is in the detection of its ecosystem (a
\* Weak signal once per tag).
C12_DetectionsPartitionSignals ==
    [][DetectWithScope =>
        LET languages == results'[Len(results')].languages
            signals == SignalsOf(paths)
        IN /\ \A i, j \in 1..Len(languages) :
                 i # j => languages[i].language # languages[j].language
           /\ \A i \in 1..Len(languages) :
                 /\ languages[i].sources # <<>>
                 /\ \A k \in 1..Len(languages[i].sources) :
                       Language_from(languages[i].sources[k].source) = languages[i].language
           /\ \A k \in 1..Len(signals) :
                 \E i \in 1..Len(languages) :
                    /\ languages[i].language = Language_from(signals[k].source)
                    /\ \E m \in 1..Len(languages[i].sources) :
                          languages[i].sources[m] = signals[k]
                    /\ signals[k].kind = "Weak" =>
                          WeakCount(languages[i].sources, signals[k].source) = 1]_vars

\* a finished run over a tree whose two Python files gave one Weak signal,
\* next to the detection of another ecosystem
C12_Witness ==
    /\ Len(results) = 1
    /\ scope = "All"
    /\ {Root \o <<"/">> \o FileName("a", "py"),
        Root \o <<"/", "s", "/">> \o FileName("b", "py"),
        Root \o <<"/", "s", "/">> \o FileName("go", "mod")} \subseteq tree.files
    /\ tree.unreadable = {}
    /\ \E i, j \in 1..Len(results[1].languages) :
          /\ results[1].languages[i].language = "Python"
          /\ results[1].languages[i].sources = <<Weak("PyFile")>>
          /\ results[1].languages[j].language = "Go"

\* q lies strictly beneath the directory p
Beneath(q, p) == q # p /\ IsPrefixOf(p \o <<"/">>, q)

\* the directories of the tree whose base name is in the ignore list
IgnoredDirs == {p \in tree.dirs : file_name(p) \in IGNORED_DIR_BASENAMES}

\* the paths of the tree that are not beneath an ignored directory
Outside == {q \in tree.dirs \cup tree.files : \A p \in IgnoredDirs : ~Beneath(q, p)}

SignalsOutside == UNION {Range(LanguageDetectionSignal_try_from(q)) : q \in Outside}

\* C13: the walker never yields a path strictly beneath a directory whose base
\* name is in the ignore list, at any depth, and no signal and no task runner
\* of a result comes from a path inside such a directory.
C13_NothingFromIgnoredDirs ==
    /\ \A i \in 1..Len(paths) : \A p \in IgnoredDirs : ~Beneath(paths[i], p)
    /\ \A r \in 1..Len(results) :
          /\ \A i \in 1..Len(results[r].languages) :
                Range(results[r].languages[i].sources) \subseteq SignalsOutside
          /\ \A i \in 1..Len(results[r].task_runners) :
                results[r].task_runners[i].path \in Outside

\* a finished whole-tree run over a tree with an ignored directory at the
\* root and another one level down, both holding files that classify
C13_Witness ==
    /\ Len(results) = 1
    /\ scope = "All"
    /\ tree.unreadable = {}
    /\ Root \o <<"/", "target", "/">> \o FileName("x", "rs") \in tree.files
    /\ Root \o <<"/", "d", "/", "build", "/">> \o FileName("Cargo", "toml") \in tree.files
    /\ Root \o <<"/">> \o FileName("a", "py") \in tree.files
    /\ results[1].languages # <<>>

\* the walk of the run is over and detect_with_scope has not gone on yet
WalkDone == run = Runs /\ queue = <<>>

\* how many times the walker has yielded q
Yielded(q) == Cardinality({i \in 1..Len(paths) : paths[i] = q})

\* the paths of the tree that are beneath no ignored directory and beneath no
\* directory whose read_dir fails
OutsideListed == {q \in Outside : \A p \in tree.unreadable : ~Beneath(q, p)}

\* C14 as stated: in whole-tree scope the walker yields every path that is
\* not beneath an ignored directory exactly once, the root and the
\* intermediate directories included.
C14_EveryPathOutsideIgnoredOnce ==
    (scope = "All" /\ Root \in tree.dirs \cup tree.files) =>
        /\ \A q \in Outside : Yielded(q) <= 1
        /\ WalkDone => \A q \in Outside : Yielded(q) = 1

\* C14 amended: in whole-tree scope the walker yields exactly once every path
\* that is beneath no ignored directory and beneath no directory that cannot
\* be read, and yields nothing else.
C14_EveryListedPathOnce ==
    (scope = "All" /\ Root \in tree.dirs \cup tree.files) =>
        /\ \A i, j \in 1..Len(paths) : i # j => paths[i] # paths[j]
        /\ Range(paths) \subseteq OutsideListed
        /\ WalkDone => \A q \in OutsideListed : Yielded(q) = 1

\* the end of a whole-tree walk over a tree with a readable subdirectory, an
\* ignored one and one that cannot be read
C14_Witness ==
    /\ WalkDone
    /\ scope = "All"
    /\ tree.unreadable = {Root \o <<"/", "d">>}
    /\ Root \o <<"/", "target">> \in tree.dirs
    /\ Yielded(Root \o <<"/", "s", "/">> \o FileName("b", "py")) = 1

\* nothing exists at the root path
RootMissing == Root \notin tree.dirs \cup tree.files

MetadataFields == {"languages", "versions", "package_managers", "task_runners"}

\* C15: when the root path does not exist the walker, in either scope, yields
\* the root path and nothing else and then ends, and detect_with_scope
\* returns a ProjectMetadata record.
C15_MissingRootYieldsRootOnly ==
    RootMissing =>
        /\ paths \in {<<>>, <<Root>>}
        /\ paths = <<Root>> => queue = <<>>
        /\ WalkDone => paths = <<Root>>
        /\ run > Runs => /\ Len(results) = 1
                         /\ DOMAIN results[1] = MetadataFields
                         /\ results[1].task_runners = <<>>

\* detect_with_scope has returned for a root that does not exist
C15_Witness ==
    /\ RootMissing
    /\ run > Runs
    /\ Len(results) = 1

\* the root and what lies directly in it
RootLevel == {Root} \cup Children(Root)

SignalsRootLevel == UNION {Range(LanguageDetectionSignal_try_from(q)) : q \in RootLevel}

\* what a result holds comes from the root level only: its signals, its task
\* runners, and the versions and package managers, which are read from the
\* signals of its detections
FromRootLevel(md) ==
    /\ \A i \in 1..Len(md.languages) :
          Range(md.languages[i].sources) \subseteq SignalsRootLevel
    /\ \A i \in 1..Len(md.task_runners) : md.task_runners[i].path \in RootLevel
    /\ \A i \in 1..Len(md.versions) :
          \E j \in 1..Len(md.languages) :
             /\ md.languages[j].language = md.versions[i].language
             /\ Range(md.versions[i].versions) \subseteq
                   UNION {Range(Flatten(VersionInfos_try_from(sig))) :
                          sig \in Range(md.languages[j].sources)}
    /\ \A i \in 1..Len(md.package_managers) :
          \A k \in 1..Len(md.package_managers[i].package_managers) :
             md.package_managers[i].package_managers[k].path \in RootLevel

\* the root is a directory whose entries the walker gets
RootListed ==
    /\ Root \in tree.dirs
    /\ file_name(Root) \notin IGNORED_DIR_BASENAMES
    /\ Root \notin tree.unreadable

\* C16 as stated: in root-only scope the walker yields exactly the root and
\* the direct children of the root, never a path at depth two or more, and
\* nothing of a result comes from inside a subdirectory.
C16_RootScopeYieldsRootAndChildren ==
    scope = "Root" =>
        /\ Range(paths) \subseteq RootLevel
        /\ WalkDone => Range(paths) = RootLevel
        /\ \A r \in 1..Len(results) : FromRootLevel(results[r])

\* C16 amended: in root-only scope the walker yields the root and, when the
\* root is a directory that is listed (readable, base name not ignored), its
\* direct children, each once; never a path at depth two or more; nothing of
\* a result comes from inside a subdirectory.
C16_RootScopeNeverDescends ==
    scope = "Root" =>
        /\ Range(paths) \subseteq RootLevel
        /\ \A i, j \in 1..Len(paths) : i # j => paths[i] # paths[j]
        /\ WalkDone =>
              Range(paths) = IF RootListed THEN RootLevel ELSE {Root}
        /\ \A r \in 1..Len(results) : FromRootLevel(results[r])

\* a finished root-only run over a tree whose subdirectory holds files that
\* classify, next to a file of the root that classifies
C16_Witness ==
    /\ scope = "Root"
    /\ Len(results) = 1
    /\ tree.unreadable = {}
    /\ Root \o <<"/", "s", "/">> \o FileName("go", "mod") \in tree.files
    /\ Root \o <<"/">> \o FileName("Cargo", "toml") \in tree.files
    /\ \E i \in 1..Len(results[1].languages) : results[1].languages[i].language = "Rust"

----------------------------------------------------------------------------
(* generation/dev_flake.rs: best_version_info called on a ProjectMetadata *)

MaxVersions == 3

\* VersionInfo records detection can give for JavaScript: .node-version with
\* 18.0.0, .nvmrc with 20, engines.node 20.0.0, .bun-version with 999.0.0,
\* and .nvmrc with lts/*, which does not parse
SampleVersions ==
    {[raw |-> "18.0.0", source |-> "NodeVersionFile",
      parsed |-> Some(SemVer(Some(18), Some(0), Some(0), "Exact"))],
     [raw |-> "20", source |-> "NvmrcFile",
      parsed |-> Some(SemVer(Some(20), None, None, "Exact"))],
     [raw |-> "20.0.0", source |-> "PackageJsonEnginesNode",
      parsed |-> Some(SemVer(Some(20), Some(0), Some(0), "Exact"))],
     [raw |-> "999.0.0", source |-> "BunVersionFile",
      parsed |-> Some(SemVer(Some(999), Some(0), Some(0), "Exact"))],
     [raw |-> "lts/*", source |-> "NvmrcFile", parsed |-> None]}

\* the metadata best_version_info is called on: with or without a Go
\* VersionDetection before that of JavaScript, which is never empty
SampleMetadata ==
    {[languages |-> <<>>, versions |-> go \o js, package_managers |-> <<>>,
      task_runners |-> <<>>] :
        go \in {<<>>, <<[language |-> "Go", versions |-> <<VMajorMinor("Go")>>]>>},
        js \in {<<>>} \cup
               {<<[language |-> "JavaScript", versions |-> vs]>> :
                   vs \in UNION {[1..k -> SampleVersions] : k \in 1..MaxVersions}}}

AllowedSources(language) ==
    CASE language = "Go" -> GO_VERSION_SOURCES
      [] language = "Python" -> PYTHON_VERSION_SOURCES
      [] language = "JavaScript" -> NODE_VERSION_SOURCES
      [] language = "Rust" -> RUST_VERSION_SOURCES

InitBv ==
    /\ args \in [md : SampleMetadata, language : {"JavaScript", "Go"}]
    /\ ret = None
    /\ OnlyCall

BestVersionInfo ==
    /\ ret = None
    /\ ret' = Some(best_version_info(args.md, args.language, AllowedSources(args.language)))
    /\ UNCHANGED <<args, genVars, pmVars, escVars, shVars, detVars>>

NextBv == BestVersionInfo

SpecBv == InitBv /\ [][NextBv]_vars

\* the VersionInfo records of the ecosystem of the call that come from an
\* allowed source and have a parsed version
Candidates ==
    {v \in UNION {Range(args.md.versions[i].versions) :
                     i \in {j \in 1..Len(args.md.versions) :
                               args.md.versions[j].language = args.language}} :
        v.source \in AllowedSources(args.language) /\ IsSome(v.parsed)}

AbsentAsZero(o) == IF o = None THEN 0 ELSE o[1]

\* the tuple (major, minor, patch) of a parsed VersionInfo is at most that of another
TupleAtMost(v, w) ==
    LET a == <<AbsentAsZero(v.parsed[1].major), AbsentAsZero(v.parsed[1].minor),
               AbsentAsZero(v.parsed[1].patch)>>
        b == <<AbsentAsZero(w.parsed[1].major), AbsentAsZero(w.parsed[1].minor),
               AbsentAsZero(w.parsed[1].patch)>>
    IN \/ a[1] < b[1]
       \/ a[1] = b[1] /\ a[2] < b[2]
       \/ a[1] = b[1] /\ a[2] = b[2] /\ a[3] <= b[3]

\* C17: best_version_info returns a VersionInfo of the ecosystem whose source
\* is allowed, whose parsed version is present and whose tuple, absent fields
\* read as zero, is at least that of every other allowed parsed VersionInfo
\* of the ecosystem; it returns nothing exactly when there is none; a version
\* from a source outside the allow-list is never selected.
C17_BestIsGreatestAllowedParsed ==
    (ret # None /\ "md" \in DOMAIN args) =>
        LET best == ret[1]
        IN /\ best = None <=> Candidates = {}
           /\ best # None =>
                 /\ best[1] \in Candidates
                 /\ \A v \in Candidates : TupleAtMost(v, best[1])

\* a call that chose among two allowed parsed versions while the metadata
\* also held a higher version of a source that is not allowed and a
\* VersionInfo without parsed version
C17_Witness ==
    /\ ret # None /\ "md" \in DOMAIN args
    /\ ret[1] # None
    /\ ret[1][1].raw = "20"
    /\ \E v, w \in Candidates : v.raw = "18.0.0" /\ w.raw = "20"
    /\ \E i \in 1..Len(args.md.versions) :
          \E k \in 1..Len(args.md.versions[i].versions) :
             args.md.versions[i].versions[k].source = "BunVersionFile"

----------------------------------------------------------------------------
(* detection/version.rs: parse_version_or_expression called on a string, a
   string being the sequence of its characters *)

MaxAlternatives == 2

DigitChars == <<"0", "1", "2", "3", "4", "5", "6", "7", "8", "9">>

WhiteSpace == {" ", "\n", "\t", "\r"}

\* str::trim for the white space of the sample strings
RECURSIVE trim_start(_)
trim_start(str) ==
    IF str # <<>> /\ Head(str) \in WhiteSpace THEN trim_start(Tail(str)) ELSE str

RECURSIVE trim_end(_)
trim_end(str) ==
    IF str # <<>> /\ str[Len(str)] \in WhiteSpace
    THEN trim_end(SubSeq(str, 1, Len(str) - 1)) ELSE str

trim(str) == trim_end(trim_start(str))

\* str::trim_start_matches: the pattern is removed as long as it is a prefix
RECURSIVE trim_start_matches(_, _)
trim_start_matches(str, pat) ==
    IF IsPrefixOf(pat, str)
    THEN trim_start_matches(SubSeq(str, Len(pat) + 1, Len(str)), pat)
    ELSE str

\* str::strip_prefix
str_strip_prefix(str, prefix) ==
    IF IsPrefixOf(prefix, str) THEN Some(SubSeq(str, Len(prefix) + 1, Len(str))) ELSE None

\* str::contains
contains(str, pat) ==
    \E i \in 1..(Len(str) - Len(pat) + 1) : SubSeq(str, i, i + Len(pat) - 1) = pat

\* str::split: the pieces between the occurrences of the pattern, left to right
RECURSIVE split(_, _)
split(str, pat) ==
    IF ~contains(str, pat) THEN <<str>>
    ELSE LET i == CHOOSE k \in 1..(Len(str) - Len(pat) + 1) :
                     /\ SubSeq(str, k, k + Len(pat) - 1) = pat
                     /\ \A j \in 1..(k - 1) : SubSeq(str, j, j + Len(pat) - 1) # pat
         IN <<SubSeq(str, 1, i - 1)>> \o split(SubSeq(str, i + Len(pat), Len(str)), pat)

\* the piece before the first - or +
BeforeDashOrPlus(str) ==
    LET stops == {i \in 1..Len(str) : str[i] \in {"-", "+"}}
    IN IF stops = {} THEN str
       ELSE SubSeq(str, 1, (CHOOSE i \in stops : \A j \in stops : i <= j) - 1)

RECURSIVE DigitsValue(_)
DigitsValue(digits) ==
    IF digits = <<>> THEN 0
    ELSE 10 * DigitsValue(SubSeq(digits, 1, Len(digits) - 1))
         + (CHOOSE d \in 0..9 : DigitChars[d + 1] = digits[Len(digits)])

\* the digits of u32::MAX, 4294967295
U32MaxDigits == <<"4", "2", "9", "4", "9", "6", "7", "2", "9", "5">>

RECURSIVE SkipZeros(_)
SkipZeros(digits) ==
    IF Len(digits) > 1 /\ Head(digits) = "0" THEN SkipZeros(Tail(digits)) ELSE digits

DigitOf(c) == CHOOSE d \in 0..9 : DigitChars[d + 1] = c

\* the number written by the digits is above u32::MAX
Overflows(digits) ==
    LET sig == SkipZeros(digits)
    IN \/ Len(sig) > 10
       \/ /\ Len(sig) = 10
          /\ \E i \in 1..10 : /\ DigitOf(sig[i]) > DigitOf(U32MaxDigits[i])
                               /\ \A j \in 1..(i - 1) : sig[j] = U32MaxDigits[j]

\* str::parse::<u32>: decimal digits after an optional plus sign, in range
parse_u32(str) ==
    LET digits == IF str # <<>> /\ Head(str) = "+" THEN Tail(str) ELSE str
    IN IF digits = <<>> \/ \E i \in 1..Len(digits) : digits[i] \notin Range(DigitChars)
       THEN None
       ELSE IF Overflows(digits) THEN None
       ELSE Some(DigitsValue(digits))

CONSTRAINTS ==
    <<[prefix |-> <<">", "=">>, constraint |-> "GreaterOrEqual"],
      [prefix |-> <<"<", "=">>, constraint |-> "LessOrEqual"],
      [prefix |-> <<">">>, constraint |-> "GreaterThan"],
      [prefix |-> <<"<">>, constraint |-> "LessThan"],
      [prefix |-> <<"^">>, constraint |-> "Caret"],
      [prefix |-> <<"~">>, constraint |-> "Tilde"],
      [prefix |-> <<"=">>, constraint |-> "Exact"]>>

parse_constraint(str) ==
    LET hits == {i \in 1..Len(CONSTRAINTS) : IsPrefixOf(CONSTRAINTS[i].prefix, str)}
    IN IF hits = {} THEN [constraint |-> "Exact", rest |-> str]
       ELSE LET i == CHOOSE k \in hits : \A j \in hits : k <= j
            IN [constraint |-> CONSTRAINTS[i].constraint,
                rest |-> trim(Unwrap(str_strip_prefix(str, CONSTRAINTS[i].prefix)))]

SemanticVersion(major, minor, patch, pre_release, build, constraint) ==
    [major |-> major, minor |-> minor, patch |-> patch, pre_release |-> pre_release,
     build |-> build, constraint |-> constraint]

\* the element of index n (from 0) of a sequence, if any
Nth(list, n) == IF n + 1 <= Len(list) THEN Some(list[n + 1]) ELSE None

parse_semantic_version(raw) ==
    LET trimmed == trim_start_matches(
                       trim_start_matches(trim_start_matches(trim(raw), <<"v">>),
                                          <<"p", "y", "t", "h", "o", "n", "-">>),
                       <<"n", "o", "d", "e", "-">>)
        parsed == parse_constraint(trimmed)
        version_str == parsed.rest
        parts == split(version_str, <<".">>)
        major == parse_u32(parts[1])
        minor == IF Len(parts) >= 2 THEN parse_u32(parts[2]) ELSE None
        patch == IF Len(parts) >= 3 THEN parse_u32(BeforeDashOrPlus(parts[3])) ELSE None
        after_dash == Nth(split(version_str, <<"-">>), 1)
        pre_release == IF after_dash = None THEN None
                       ELSE Some(split(after_dash[1], <<"+">>)[1])
        build == Nth(split(version_str, <<"+">>), 1)
    IN IF trimmed = <<"*">>
       THEN Some(SemanticVersion(None, None, None, None, None, "Wildcard"))
       ELSE IF version_str = <<>> THEN None
       ELSE IF major = None THEN None
       ELSE Some(SemanticVersion(major, minor, patch, pre_release, build, parsed.constraint))

\* the order of Option<u32>: None is below every Some
OptionLess(a, b) == (a = None /\ b # None) \/ (a # None /\ b # None /\ a[1] < b[1])

\* the order of the key (v.major, v.minor, v.patch)
KeyLeq(v, w) ==
    \/ OptionLess(v.major, w.major)
    \/ v.major = w.major /\ OptionLess(v.minor, w.minor)
    \/ v.major = w.major /\ v.minor = w.minor /\ ~OptionLess(w.patch, v.patch)

\* Iterator::max_by_key: the last of the greatest elements
RECURSIVE MaxByOptionKey(_, _)
MaxByOptionKey(list, best) ==
    IF list = <<>> THEN best
    ELSE IF best = None \/ KeyLeq(best[1], Head(list))
         THEN MaxByOptionKey(Tail(list), Some(Head(list)))
         ELSE MaxByOptionKey(Tail(list), best)

parse_version_or_expression(raw) ==
    IF ~contains(raw, <<"|", "|">>) THEN parse_semantic_version(raw)
    ELSE LET pieces == split(raw, <<"|", "|">>)
         IN MaxByOptionKey(Flatten([i \in 1..Len(pieces) |->
                                       parse_semantic_version(trim(pieces[i]))]), None)

\* the alternatives the expressions are made of
SampleAlternatives ==
    {<<"1", ".", "0", ".", "3">>,
     <<"1", ".", "x", ".", "5">>,
     <<"1">>,
     <<"1", ".", "0">>,
     <<">", "=", "2", ".", "0">>,
     <<"v", "1", ".", "2">>,
     <<"*">>,
     <<"b", "a", "d">>,
     <<"^">>}

\* the alternatives joined by ||, with a space on either side
RECURSIVE JoinOr(_)
JoinOr(alternatives) ==
    IF Len(alternatives) = 1 THEN alternatives[1]
    ELSE alternatives[1] \o <<" ", "|", "|", " ">> \o JoinOr(Tail(alternatives))

InitVo ==
    /\ args \in UNION {[1..k -> SampleAlternatives] : k \in 1..MaxAlternatives}
    /\ ret = None
    /\ OnlyCall

ParseVersionOrExpression ==
    /\ ret = None
    /\ ret' = Some(parse_version_or_expression(JoinOr(args)))
    /\ UNCHANGED <<args, genVars, pmVars, escVars, shVars, detVars>>

NextVo == ParseVersionOrExpression

SpecVo == InitVo /\ [][NextVo]_vars

\* the alternatives of the expression that parse, parsed
ParsedAlternatives ==
    UNION {Range(parse_semantic_version(args[i])) : i \in 1..Len(args)}

\* the tuple (major, minor, patch) of v, absent fields taken as zero, is at
\* most that of w
ZeroTupleAtMost(v, w) ==
    LET a == <<AbsentAsZero(v.major), AbsentAsZero(v.minor), AbsentAsZero(v.patch)>>
        b == <<AbsentAsZero(w.major), AbsentAsZero(w.minor), AbsentAsZero(w.patch)>>
    IN \/ a[1] < b[1]
       \/ a[1] = b[1] /\ a[2] < b[2]
       \/ a[1] = b[1] /\ a[2] = b[2] /\ a[3] <= b[3]

\* C18: parse_version_or_expression returns the alternative whose tuple
\* (major, minor, patch), absent fields taken as zero, is the greatest among
\* the alternatives that parse, whatever fields are present or absent, and
\* returns nothing only when no alternative parses.
C18_OrExpressionPicksGreatestTuple ==
    ret # None =>
        /\ ret[1] = None <=> ParsedAlternatives = {}
        /\ ret[1] # None =>
              /\ ret[1][1] \in ParsedAlternatives
              /\ \A v \in ParsedAlternatives : ZeroTupleAtMost(v, ret[1][1])

----------------------------------------------------------------------------
(* detection/version.rs: VersionDetection::try_from called on the Rust
   detection of a project whose version files have various contents. A plain
   file is the sequence of its characters, or None when it cannot be read; a
   TOML file is None when it cannot be read, and else what toml::from_str
   gives: NotToml or the value *)

NotToml == [kind |-> "error"]
TomlString(str) == [kind |-> "string", str |-> str]
TomlInteger == [kind |-> "integer"]
TomlTable(entries) == [kind |-> "table", entries |-> entries]

\* toml::Value::get with a key
TomlGet(value, key) ==
    IF value.kind = "table" /\ key \in DOMAIN value.entries
    THEN Some(value.entries[key]) ELSE None

\* toml::Value::as_str
as_str(value) == IF value.kind = "string" THEN Some(value.str) ELSE None

Text_1_70_0 == <<"1", ".", "7", "0", ".", "0">>
Text_1_75 == <<"1", ".", "7", "5">>
Text_stable == <<"s", "t", "a", "b", "l", "e">>

RustToolchainPath == Root \o <<"/", "rust-toolchain">>
RustToolchainTomlPath == Root \o <<"/">> \o FileName("rust-toolchain", "toml")
CargoTomlPath == Root \o <<"/">> \o FileName("Cargo", "toml")

VersionInfo(raw, parsed, source, path) ==
    [raw |-> raw, parsed |-> parsed, source |-> source, path |-> path]

parse_simple_version_file_KeepsEmpty(files, path, source) ==
    IF files[path] = None THEN <<>>
    ELSE LET version == trim(Unwrap(files[path]))
         IN <<VersionInfo(version, parse_semantic_version(version), source, path)>>

parse_simple_version_file(files, path, source) ==
    IF files[path] = None THEN <<>>
    ELSE LET version == trim(Unwrap(files[path]))
         IN IF version = <<>> THEN <<>>
            ELSE <<VersionInfo(version, parse_semantic_version(version), source, path)>>

RECURSIVE TomlWalk(_, _)
\* the loop of parse_toml_field over field_path
TomlWalk(current, field_path) ==
    IF field_path = <<>> THEN Some(current)
    ELSE IF TomlGet(current, Head(field_path)) = None THEN None
    ELSE TomlWalk(Unwrap(TomlGet(current, Head(field_path))), Tail(field_path))

parse_toml_field(files, path, field_path, source) ==
    IF files[path] = None THEN <<>>
    ELSE IF Unwrap(files[path]) = NotToml THEN <<>>
    ELSE LET current == TomlWalk(Unwrap(files[path]), field_path)
         IN IF current = None THEN <<>>
            ELSE IF as_str(Unwrap(current)) = None THEN <<>>
            ELSE LET version_str == Unwrap(as_str(Unwrap(current)))
                 IN <<VersionInfo(version_str, parse_semantic_version(version_str),
                                  source, path)>>

parse_rust_toolchain_toml(files, path) ==
    IF files[path] = None THEN <<>>
    ELSE IF Unwrap(files[path]) = NotToml THEN <<>>
    ELSE LET parsed == Unwrap(files[path])
             toolchain == TomlGet(parsed, "toolchain")
             nested == IF toolchain = None THEN None
                       ELSE TomlGet(Unwrap(toolchain), "channel")
             found == IF nested # None THEN nested ELSE TomlGet(parsed, "channel")
             channel == IF found = None THEN None ELSE as_str(Unwrap(found))
         IN IF channel = None THEN <<>>
            ELSE <<VersionInfo(Unwrap(channel), parse_semantic_version(Unwrap(channel)),
                               "RustToolchainToml", path)>>

\* TryFrom<&LanguageDetectionSignal> for Vec<VersionInfo>, for the Rust sources
VersionInfos_of(files, signal) ==
    LET versions ==
          IF signal.kind = "Weak" THEN <<>>
          ELSE CASE signal.source = "CargoToml" ->
                      parse_toml_field(files, signal.path, <<"package", "rust-version">>,
                                       "CargoTomlRustVersion")
                 [] signal.source = "RustToolchain" ->
                      parse_simple_version_file(files, signal.path, "RustToolchainFile")
                 [] signal.source = "RustToolchainToml" ->
                      parse_rust_toolchain_toml(files, signal.path)
                 [] OTHER -> <<>>
    IN IF versions = <<>> THEN None ELSE Some(versions)

\* TryFrom<&LanguageDetection> for VersionDetection
VersionDetection_of(files, lang_detection) ==
    LET versions == Flatten(Flatten([i \in 1..Len(lang_detection.sources) |->
                                        VersionInfos_of(files, lang_detection.sources[i])]))
    IN IF versions = <<>> THEN None
       ELSE Some([language |-> lang_detection.language, versions |-> versions])

PlainContents ==
    {None, Some(<<>>), Some(<<" ", "\n">>), Some(Text_1_70_0 \o <<"\n">>),
     Some(Text_stable \o <<"\n">>), Some(Text_1_75)}

ToolchainTomlContents ==
    {None, Some(NotToml), Some(TomlTable(EmptyFcn)),
     Some(TomlTable([channel |-> TomlString(Text_1_75)])),
     Some(TomlTable([toolchain |-> TomlTable(EmptyFcn), channel |-> TomlString(Text_1_75)])),
     Some(TomlTable([toolchain |-> TomlTable([channel |-> TomlInteger]),
                     channel |-> TomlString(Text_1_75)]))}
    \cup {Some(TomlTable([toolchain |-> TomlTable([channel |-> TomlString(str)])])) :
             str \in {Text_1_70_0, Text_stable, <<>>}}

CargoTomlContents ==
    {Some(NotToml), Some(TomlTable(EmptyFcn)),
     Some(TomlTable([package |-> TomlTable([name |-> TomlString(<<"a">>)])])),
     Some(TomlTable([package |-> TomlTable(("rust-version" :> TomlString(Text_1_70_0)))]))}

\* the Rust detection of a project that has the three files
RustDetection ==
    LanguageDetection_new("Rust",
        <<Strong(CargoTomlPath, "CargoToml"),
          Strong(RustToolchainPath, "RustToolchain"),
          Strong(RustToolchainTomlPath, "RustToolchainToml")>>)

InitVd ==
    /\ \E plain \in PlainContents, toolchain \in ToolchainTomlContents,
          cargo \in CargoTomlContents :
          args = (RustToolchainPath :> plain) @@ (RustToolchainTomlPath :> toolchain)
                 @@ (CargoTomlPath :> cargo)
    /\ ret = None
    /\ OnlyCall

VersionDetectionTryFrom ==
    /\ ret = None
    /\ ret' = Some(VersionDetection_of(args, RustDetection))
    /\ UNCHANGED <<args, genVars, pmVars, escVars, shVars, detVars>>

NextVd == VersionDetectionTryFrom

SpecVd == InitVd /\ [][NextVd]_vars

\* the string a TOML file holds at a path of keys, if it is one
StringAt(file, keys) ==
    IF file = None \/ file = Some(NotToml) THEN None
    ELSE IF TomlWalk(file[1], keys) = None THEN None
    ELSE as_str(TomlWalk(file[1], keys)[1])

\* the value each version source of the call carries, if any: the trimmed
\* content of rust-toolchain, the channel of rust-toolchain.toml (that of
\* the table toolchain first), package.rust-version of Cargo.toml
SourceValue(source) ==
    CASE source = "RustToolchainFile" ->
           IF args[RustToolchainPath] = None THEN None
           ELSE Some(trim(args[RustToolchainPath][1]))
      [] source = "RustToolchainToml" ->
           IF args[RustToolchainTomlPath] \in {None, Some(NotToml)} THEN None
           ELSE IF TomlWalk(args[RustToolchainTomlPath][1], <<"toolchain", "channel">>) # None
                THEN StringAt(args[RustToolchainTomlPath], <<"toolchain", "channel">>)
                ELSE StringAt(args[RustToolchainTomlPath], <<"channel">>)
      [] source = "CargoTomlRustVersion" ->
           StringAt(args[CargoTomlPath], <<"package", "rust-version">>)

RustSources == {"RustToolchainFile", "RustToolchainToml", "CargoTomlRustVersion"}

\* the VersionInfo records of the result of the call
ResultVersions == IF ret[1] = None THEN <<>> ELSE ret[1][1].versions

FromSource(source) ==
    {i \in 1..Len(ResultVersions) : ResultVersions[i].source = source}

VersionFilesCalled == ret # None /\ RustToolchainPath \in DOMAIN args

----------------------------------------------------------------------------
(* generation/dev_flake.rs: the keys collect_checks gives to commands that
   have the same base key *)

\* the base key of the i-th command collect_checks visits
ItemBaseKey(i) ==
    LET item == Work[i]
        tr == metadata.task_runners[item.tr]
        rel == relativize_path(Root, tr.path)
        runner_path == IF IsSome(rel) THEN Unwrap(rel) ELSE tr.path
        cmd_info == resolve_task_command(item.cmd, Root).info
        language == infer_check_language(tr.task_runner, cmd_info.required_exec,
                                         primary_language(metadata))
    IN BaseKey(item.cmd, language, item.category, tr.task_runner, slugify_path(runner_path))

\* the j-th command is processed before the i-th: task runners in the order
\* of the metadata, in a runner the test bucket before the build bucket, in
\* a bucket the commands in their order
ProcessedBefore(j, i) ==
    \/ Work[j].tr < Work[i].tr
    \/ /\ Work[j].tr = Work[i].tr
       /\ Work[j].category = "Test" /\ Work[i].category = "Build"
    \/ /\ Work[j].tr = Work[i].tr
       /\ Work[j].category = Work[i].category
       /\ j < i

\* the CheckSpec the step has pushed
PushedSpec ==
    LET grown == {p \in UNION {{<<l, c>> : c \in DOMAIN grouped'[l]} : l \in DOMAIN grouped'} :
                     Len(grouped'[p[1]][p[2]]) >
                        (IF p[1] \in DOMAIN grouped /\ p[2] \in DOMAIN grouped[p[1]]
                         THEN Len(grouped[p[1]][p[2]]) ELSE 0)}
        p == CHOOSE q \in grown : TRUE
    IN grouped'[p[1]][p[2]][Len(grouped'[p[1]][p[2]])]

\* C20: of the commands that give the same base key, the first processed
\* keeps the base key and the n-th processed, n from 2 on, gets base-n; the
\* order is that of the task runners in the metadata and, in a runner, the
\* test bucket before the build bucket; the count goes on across runners,
\* ecosystems and categories.
C20_NthSameBaseKeyGetsSuffixN ==
    [][ProcessCommand =>
        LET base == ItemBaseKey(pos)
            n == 1 + Cardinality({j \in 1..Len(Work) :
                                     ProcessedBefore(j, pos) /\ ItemBaseKey(j) = base})
        IN /\ PushedSpec.key = IF n = 1 THEN base ELSE base \o <<"-">> \o FormatUsize(n)
           /\ key_counts'[base] = n]_vars

\* two commands of one runner and a command of another runner have got the
\* same base key
C20_Witness ==
    /\ pc = "collect"
    /\ \E i, j, k \in 1..(pos - 1) :
          /\ i < j /\ j < k
          /\ Work[i].tr = Work[j].tr
          /\ Work[j].tr # Work[k].tr
          /\ ItemBaseKey(i) = ItemBaseKey(j)
          /\ ItemBaseKey(j) = ItemBaseKey(k)
          /\ key_counts[ItemBaseKey(k)] = 3

----------------------------------------------------------------------------
(* detection/mod.rs: DirectoryIterator::next called again and again, also
   after the iterator has reported its end. ret is None before the first
   call, Some(Some(p)) after a call that gave p, Some(None) after a call
   that gave nothing *)

\* VecDeque::pop_front when the queue is empty gives the queue again
pop_front_Restarts(q) ==
    IF q = <<>> THEN [value |-> None, queue |-> DirectoryIterator_new(self_root)]
    ELSE [value |-> Some(Head(q)), queue |-> Tail(q)]

\* VecDeque::pop_front
pop_front(q) ==
    IF q = <<>> THEN [value |-> None, queue |-> q]
    ELSE [value |-> Some(Head(q)), queue |-> Tail(q)]

\* next when the queue holds a path: the path is popped, inspect pushes the
\* entries of a directory that is listed, and the path is returned
IterNextSome ==
    /\ queue # <<>>
    /\ LET popped == pop_front(queue)
           p == Unwrap(popped.value)
       IN /\ \E entries \in Orders(IF Expands(p) THEN Children(p) ELSE {}) :
               queue' = push_back_all(popped.queue, entries)
          /\ ret' = Some(popped.value)
    /\ UNCHANGED <<tree, scope, self_root, run, paths, results, args>>
    /\ UNCHANGED <<genVars, pmVars, escVars, shVars>>

\* next when the queue is empty: pop_front gives None and inspect does nothing
IterNextNone ==
    /\ queue = <<>>
    /\ LET popped == pop_front(queue)
       IN /\ queue' = popped.queue
          /\ ret' = Some(popped.value)
    /\ UNCHANGED <<tree, scope, self_root, run, paths, results, args>>
    /\ UNCHANGED <<genVars, pmVars, escVars, shVars>>

NextIt == IterNextSome \/ IterNextNone

\* the caller goes on calling next
SpecIt == InitW /\ [][NextIt]_vars /\ WF_vars(NextIt)

Exhausted == queue = <<>> /\ ret = Some(None)

\* C21: over a finite tree the walker terminates, in both scopes: after
\* finitely many calls of next the queue is empty and next reports the end,
\* and from then on it always does.
C21_WalkerTerminates == <>[]Exhausted

\* the walker has reported its end after a whole-tree walk that went two
\* directories deep
C21_Witness ==
    /\ Exhausted
    /\ scope = "All"
    /\ tree.unreadable = {}
    /\ Root \o <<"/", "d", "/", "build">> \in tree.dirs
    /\ Root \o <<"/", "s", "/">> \o FileName("b", "py") \in tree.files

----------------------------------------------------------------------------
(* detection/mod.rs: the order in which the walker yields *)

\* the place of a yielded path among the yielded paths
IndexOf(q) == CHOOSE i \in 1..Len(paths) : paths[i] = q

\* C22: the walker yields breadth-first: the root first, every path of a
\* depth before any path one level deeper, and the children of a directory
\* yielded earlier before those of a directory of the same depth yielded
\* later.
C22_BreadthFirstOrder ==
    /\ paths # <<>> => paths[1] = Root
    /\ \A i, j \in 1..Len(paths) : i < j => Depth(paths[i]) <= Depth(paths[j])
    /\ \A i, j \in 2..Len(paths) :
          LET pi == Unwrap(parent(paths[i]))
              pj == Unwrap(parent(paths[j]))
          IN (pi # pj /\ IndexOf(pi) < IndexOf(pj)) => i < j

\* the end of a whole-tree walk in which two directories of the root were
\* listed
C22_Witness ==
    /\ WalkDone
    /\ scope = "All"
    /\ \E i, j \in 1..Len(paths) :
          /\ paths[i] = Root \o <<"/", "s", "/">> \o FileName("b", "py")
          /\ paths[j] = Root \o <<"/", "d", "/", "build">>
    /\ Root \o <<"/">> \o FileName("a", "py") \in tree.files

----------------------------------------------------------------------------
(* detection/mod.rs: a directory whose listing fails *)

\* the tree t with nothing beneath the directory u, and u readable
EmptiedAt(t, u) ==
    [dirs |-> {q \in t.dirs : ~Beneath(q, u)},
     files |-> {q \in t.files : ~Beneath(q, u)},
     unreadable |-> t.unreadable \ {u}]

\* what a walk of the tree t in the scope sc yields: the root, and every
\* path all of whose ancestors from the root down are listed
WalkOf(t, sc) ==
    {Root} \cup
    {q \in t.dirs \cup t.files :
        \A a \in t.dirs \cup t.files \cup {Root} :
            (a = Unwrap(parent(q)) \/ Beneath(q, a)) =>
                /\ a \in t.dirs
                /\ file_name(a) \notin IGNORED_DIR_BASENAMES
                /\ a \notin t.unreadable
                /\ sc = "All" \/ a = Root}

\* C23: a directory whose listing fails is still yielded itself, none of
\* its descendants is, no error ends the walk, and the other paths yielded
\* are those of the same walk over the tree in which that directory is empty.
C23_UnreadableDirectoryIsALeaf ==
    \A u \in tree.unreadable :
        /\ \A i \in 1..Len(paths) : ~Beneath(paths[i], u)
        /\ Range(paths) \subseteq WalkOf(EmptiedAt(tree, u), scope)
        /\ WalkDone => Range(paths) = WalkOf(EmptiedAt(tree, u), scope)
        /\ (WalkDone /\ u \in WalkOf(EmptiedAt(tree, u), scope)) => Yielded(u) = 1

\* the end of a whole-tree walk over a tree whose directory d cannot be
\* listed and whose directory s can
C23_Witness ==
    /\ WalkDone
    /\ scope = "All"
    /\ tree.unreadable = {Root \o <<"/", "d">>}
    /\ Root \o <<"/", "d", "/", "build">> \in tree.dirs
    /\ Yielded(Root \o <<"/", "d">>) = 1
    /\ Yielded(Root \o <<"/", "s", "/">> \o FileName("go", "mod")) = 1

----------------------------------------------------------------------------
(* detection/version.rs: the fields of a parsed version *)

MaxSegments == 3

\* what may stand in front of the segments
SamplePrefixes == {<<>>, <<"v">>, <<" ">>, <<">", "=">>, <<"^">>}

\* the dot-separated segments of the sample versions
SampleSegments == {<<"1">>, <<"x">>, <<"5">>, <<"*">>}

RECURSIVE JoinDots(_)
JoinDots(segments) ==
    IF Len(segments) = 1 THEN segments[1]
    ELSE segments[1] \o <<".">> \o JoinDots(Tail(segments))

InitSv ==
    /\ args \in {prefix \o JoinDots(segments) :
                    prefix \in SamplePrefixes,
                    segments \in UNION {[1..k -> SampleSegments] : k \in 1..MaxSegments}}
    /\ ret = None
    /\ OnlyCall

ParseSemanticVersion ==
    /\ ret = None
    /\ ret' = Some(parse_semantic_version(args))
    /\ UNCHANGED <<args, genVars, pmVars, escVars, shVars, detVars>>

NextSv == ParseSemanticVersion

SpecSv == InitSv /\ [][NextSv]_vars

\* the input without its surrounding white space and its v, python- and
\* node- prefixes
Trimmed(raw) ==
    trim_start_matches(
        trim_start_matches(trim_start_matches(trim(raw), <<"v">>),
                           <<"p", "y", "t", "h", "o", "n", "-">>),
        <<"n", "o", "d", "e", "-">>)

\* C24: in every SemanticVersion returned by parse_semantic_version, patch
\* is present only if minor is and minor only if major is; the constraint
\* is Wildcard exactly when the trimmed input is a bare *, and then major,
\* minor and patch are all absent.
C24_FieldsPresentLeftToRight ==
    (ret # None /\ ret[1] # None) =>
        LET parsed == ret[1][1]
        IN /\ parsed.patch # None => parsed.minor # None
           /\ parsed.minor # None => parsed.major # None
           /\ parsed.constraint = "Wildcard" <=> Trimmed(args) = <<"*">>
           /\ parsed.constraint = "Wildcard" =>
                 parsed.major = None /\ parsed.minor = None /\ parsed.patch = None

----------------------------------------------------------------------------
(* detection/task_runner.rs: the category of a command *)

MaxNames == 2
MaxNameLen == 2

\* the pieces of the sample command names
NameTokens == {"test", "TEST", "spec", "build", "dist", "lint", "-"}

SampleNames == UNION {[1..k -> NameTokens] : k \in 1..MaxNameLen}

InitCl ==
    /\ args \in UNION {[1..k -> SampleNames] : k \in 1..MaxNames}
    /\ ret = None
    /\ OnlyCall

\* the targets of a Makefile, classified and added one by one
ExtractCommands ==
    /\ ret = None
    /\ ret' = Some(extract_makefile_commands(args))
    /\ UNCHANGED <<args, genVars, pmVars, escVars, shVars, detVars>>

NextCl == ExtractCommands

SpecCl == InitCl /\ [][NextCl]_vars

\* the name, whatever the case of its letters, contains one of the keywords
ContainsKeyword(name, keywords) ==
    \E i \in 1..Len(name) : to_ascii_lowercase(name[i]) \in keywords

\* the names of the commands of a bucket
NamesIn(bucket) == [i \in 1..Len(bucket) |-> bucket[i].name]

\* the names of the arguments whose keywords are as told
NamesWith(test, build) ==
    SelectSeq(args, LAMBDA name : /\ ContainsKeyword(name, TEST_KEYWORDS) = test
                                  /\ ContainsKeyword(name, BUILD_KEYWORDS) \in build)

\* C25: a name that contains a test keyword, in any case, is in the test
\* bucket even if it contains a build keyword too; a name with a build
\* keyword and no test keyword is in the build bucket; a name with neither is
\* in the other bucket; every command is in exactly one bucket.
C25_TestKeywordsFirst ==
    ret # None =>
        /\ NamesIn(ret[1].test) = NamesWith(TRUE, BOOLEAN)
        /\ NamesIn(ret[1].build) = NamesWith(FALSE, {TRUE})
        /\ NamesIn(ret[1].other) = NamesWith(FALSE, {FALSE})
        /\ Len(ret[1].test) + Len(ret[1].build) + Len(ret[1].other) = Len(args)

\* a name with a build keyword and an upper-case test keyword, after a name
\* with neither
C25_Witness ==
    /\ ret # None
    /\ args = <<<<"lint">>, <<"build", "TEST">>>>
    /\ NamesIn(ret[1].test) = <<<<"build", "TEST">>>>
    /\ NamesIn(ret[1].other) = <<<<"lint">>>>

----------------------------------------------------------------------------
(* detection/task_runner.rs: the environments of a tox.ini *)

MaxLines == 4

\* [a-zA-Z0-9_-]
EnvNameChars == {"testenv", "tox", "lint", "py", "39", "commands", "deps", "pytest", "flake8", "-"}

\* the longest prefix of the text made of the characters of the set
RECURSIVE TakeWhileIn(_, _)
TakeWhileIn(str, set) ==
    IF str = <<>> \/ Head(str) \notin set THEN <<>>
    ELSE <<Head(str)>> \o TakeWhileIn(Tail(str), set)

\* env_re.captures(line): nothing without a match, else the name of the
\* environment, "default" when the header names none
env_re_captures(line) ==
    IF ~IsPrefixOf(<<"[", "testenv">>, line) THEN None
    ELSE LET rest == SubSeq(line, 3, Len(line))
             name == TakeWhileIn(Tail(rest), EnvNameChars)
         IN IF rest # <<>> /\ Head(rest) = "]" THEN Some(<<"default">>)
            ELSE IF /\ rest # <<>> /\ Head(rest) = ":"
                    /\ name # <<>>
                    /\ Len(rest) > 1 + Len(name)
                    /\ rest[2 + Len(name)] = "]"
                 THEN Some(name)
                 ELSE None

\* str::split_once: the text after the first occurrence of the pattern
AfterFirst(str, pat) ==
    IF ~contains(str, pat) THEN None
    ELSE LET i == CHOOSE k \in 1..(Len(str) - Len(pat) + 1) :
                     /\ SubSeq(str, k, k + Len(pat) - 1) = pat
                     /\ \A j \in 1..(k - 1) : SubSeq(str, j, j + Len(pat) - 1) # pat
         IN Some(SubSeq(str, i + Len(pat), Len(str)))

\* the predicate of the find: a line of another kind is passed over
IsCommandsLine(l) ==
    LET t == trim(l)
    IN /\ ~IsPrefixOf(<<"[">>, t)
       /\ t # <<>>
       /\ ~IsPrefixOf(<<"#">>, t)
       /\ IsPrefixOf(<<"commands">>, t)

\* the indented lines that follow the commands line, up to the first line
\* that is not indented or is a header
RECURSIVE Continuation(_)
Continuation(following) ==
    IF following = <<>> THEN <<>>
    ELSE LET l == Head(following)
             t == trim(l)
         IN IF (IsPrefixOf(<<" ">>, l) \/ IsPrefixOf(<<"\t">>, l)) /\ ~IsPrefixOf(<<"[">>, t)
            THEN (IF t # <<>> /\ ~IsPrefixOf(<<"#">>, t) THEN <<t>> ELSE <<>>)
                     \o Continuation(Tail(following))
            ELSE <<>>

\* the commands of the environment whose header is the line idx
commands_found(lines, idx) ==
    LET after == SubSeq(lines, idx + 1, Len(lines))
        hits == {k \in 1..Len(after) : IsCommandsLine(after[k])}
    IN IF hits = {} THEN <<>>
       ELSE LET k == CHOOSE h \in hits : \A j \in hits : h <= j
                val == AfterFirst(after[k], <<"=">>)
                inline == IF val # None /\ trim(val[1]) # <<>> THEN <<trim(val[1])>> ELSE <<>>
            IN inline \o Continuation(SubSeq(after, k + 1, Len(after)))

RECURSIVE ToxLoop(_, _, _)
ToxLoop(lines, idx, commands) ==
    IF idx > Len(lines) THEN commands
    ELSE LET caps == env_re_captures(trim(lines[idx]))
             env_name == Unwrap(caps)
             cmd == TaskCommand(env_name,
                        Direct(IF env_name = <<"default">> THEN <<"tox">>
                               ELSE <<"tox", " ", "-e", " ">> \o env_name))
             category == IF env_name = <<"default">> \/ IsPrefixOf(<<"py">>, env_name)
                         THEN "Test" ELSE classify_command(env_name)
         IN IF caps # None /\ commands_found(lines, idx) # <<>>
            THEN ToxLoop(lines, idx + 1, add_command(commands, cmd, category))
            ELSE ToxLoop(lines, idx + 1, commands)

extract_tox_commands(content) ==
    LET commands == ToxLoop(content, 1, EmptyCommands)
    IN IF commands.test = <<>> /\ commands.build = <<>> /\ commands.other = <<>>
       THEN add_command(commands, TaskCommand(<<"default">>, Direct(<<"tox">>)), "Test")
       ELSE commands

\* the lines of the sample files
ToxLines ==
    {<<"[", "testenv", "]">>,
     <<"[", "testenv", ":", "lint", "]">>,
     <<"[", "testenv", ":", "py", "39", "]">>,
     <<"[", "tox", "]">>,
     <<"commands", " ", "=", " ", "pytest">>,
     <<"commands", " ", "=">>,
     <<" ", "flake8">>,
     <<"deps", " ", "=", " ", "pytest">>,
     <<"#", " ", "commands">>}

InitTox ==
    /\ args \in UNION {[1..k -> ToxLines] : k \in 0..MaxLines}
    /\ ret = None
    /\ OnlyCall

ExtractToxCommands ==
    /\ ret = None
    /\ ret' = Some(extract_tox_commands(args))
    /\ UNCHANGED <<args, genVars, pmVars, escVars, shVars, detVars>>

NextTox == ExtractToxCommands

SpecTox == InitTox /\ [][NextTox]_vars

\* the lines that are headers of an environment
EnvHeaders == {i \in 1..Len(args) : env_re_captures(trim(args[i])) # None}

\* the section of the header i: the lines after it, up to the next header of
\* a section
OwnSection(i) ==
    {k \in (i + 1)..Len(args) : \A j \in (i + 1)..k : ~IsPrefixOf(<<"[">>, trim(args[j]))}

\* the environments whose own section holds a commands assignment
WithCommands ==
    {i \in EnvHeaders : \E k \in OwnSection(i) : IsPrefixOf(<<"commands">>, trim(args[k]))}

\* the commands of the result, bucket after bucket
AllCommands(commands) == commands.test \o commands.build \o commands.other

\* C26: an environment of a tox.ini whose own section, from its header to
\* the next section header, holds no commands assignment contributes no
\* command, even when a later section holds one; and when no environment
\* contributes a command the result is exactly one "default" tox command in
\* the test bucket.
C26_CommandsOnlyFromOwnSection ==
    ret # None =>
        LET default == [test |-> <<TaskCommand(<<"default">>, Direct(<<"tox">>))>>,
                        build |-> <<>>, other |-> <<>>]
            all == AllCommands(ret[1])
        IN /\ WithCommands = {} => ret[1] = default
           /\ \/ ret[1] = default
              \/ \A name \in {cmd.name : cmd \in Range(all)} :
                    Cardinality({n \in 1..Len(all) : all[n].name = name})
                        <= Cardinality({i \in WithCommands :
                                           Unwrap(env_re_captures(trim(args[i]))) = name})

----------------------------------------------------------------------------
(* detection/task_runner.rs: the sessions of a noxfile and the tasks of a
   tasks.py *)

\* [a-zA-Z0-9_]
PyWordChars == {"def", "tests", "lint", "py", "39", "session", "run", "task", "nox"}

\* func_re.captures(t): the name of the function the line defines
func_re_captures(t) ==
    IF ~IsPrefixOf(<<"def">>, t) THEN None
    ELSE LET space == TakeWhileIn(Tail(t), WhiteSpace)
             after == SubSeq(t, 2 + Len(space), Len(t))
             name == TakeWhileIn(after, PyWordChars)
             rest == trim_start(SubSeq(after, Len(name) + 1, Len(after)))
         IN IF space # <<>> /\ name # <<>> /\ IsPrefixOf(<<"(">>, rest)
            THEN Some(name) ELSE None

\* the first function defined at or after the line idx, past the lines of
\* the decorators, the comments and the empty lines
RECURSIVE FindFunc(_)
FindFunc(ls) ==
    IF ls = <<>> THEN None
    ELSE LET t == trim(Head(ls))
             kept == /\ ~IsPrefixOf(<<"@">>, t)
                     /\ t # <<>>
                     /\ ~IsPrefixOf(<<"#">>, t)
                     /\ ~IsPrefixOf(<<")">>, t) \/ contains(t, <<"def", " ">>)
         IN IF kept /\ func_re_captures(t) # None THEN func_re_captures(t)
            ELSE FindFunc(Tail(ls))

\* the lines of the decorator: up to the function, and no further than the
\* first line that closes a parenthesis
RECURSIVE DecoratorLines(_, _)
DecoratorLines(ls, done) ==
    IF ls = <<>> \/ done \/ IsPrefixOf(<<"def", " ">>, trim(Head(ls))) THEN <<>>
    ELSE <<trim(Head(ls))>> \o DecoratorLines(Tail(ls), contains(trim(Head(ls)), <<")">>))

\* join(" ")
RECURSIVE JoinSpace(_)
JoinSpace(pieces) ==
    IF pieces = <<>> THEN <<>>
    ELSE IF Len(pieces) = 1 THEN pieces[1]
    ELSE pieces[1] \o <<" ">> \o JoinSpace(Tail(pieces))

\* the quoted value of name= in the text of the decorator
explicit_name(decorator_text) ==
    LET found == AfterFirst(decorator_text, <<"name=">>)
        after == trim_start(Unwrap(found))
        quote == Head(after)
        inside == Tail(after)
    IN IF found = None THEN None
       ELSE IF after = <<>> THEN None
       ELSE IF quote \notin {"\"", "'"} THEN None
       ELSE IF ~contains(inside, <<quote>>) THEN None
       ELSE Some(split(inside, <<quote>>)[1])

RECURSIVE NoxLoop(_, _, _)
NoxLoop(lines, idx, commands) ==
    IF idx > Len(lines) THEN commands
    ELSE LET from == SubSeq(lines, idx, Len(lines))
             explicit == explicit_name(JoinSpace(DecoratorLines(from, FALSE)))
             func_name == FindFunc(from)
             session_name == IF explicit # None THEN Unwrap(explicit) ELSE Unwrap(func_name)
             category == IF IsPrefixOf(<<"py">>, session_name) THEN "Test"
                         ELSE classify_command(session_name)
         IN IF IsPrefixOf(<<"@", "nox", ".", "session">>, trim(lines[idx])) /\ func_name # None
            THEN NoxLoop(lines, idx + 1,
                     add_command(commands,
                                 TaskCommand(session_name,
                                             Direct(<<"nox", " ", "-s", " ">> \o session_name)),
                                 category))
            ELSE NoxLoop(lines, idx + 1, commands)

\* the result is returned as the loop leaves it
extract_nox_commands_NoFallback(content) == NoxLoop(content, 1, EmptyCommands)

extract_nox_commands(content) ==
    LET commands == NoxLoop(content, 1, EmptyCommands)
    IN IF commands.test = <<>> /\ commands.build = <<>> /\ commands.other = <<>>
       THEN add_command(commands, TaskCommand(<<"default">>, Direct(<<"nox">>)), "Test")
       ELSE commands

\* task_decorator_re.is_match(trimmed): @task, then the end of a word
task_decorator_re_is_match(trimmed) ==
    /\ IsPrefixOf(<<"@", "task">>, trimmed)
    /\ Len(trimmed) > 2 => trimmed[3] \notin PyWordChars

RECURSIVE InvokeLoop(_, _, _)
InvokeLoop(lines, idx, commands) ==
    IF idx > Len(lines) THEN commands
    ELSE LET func_name == FindFunc(SubSeq(lines, idx, Len(lines)))
             task_name == Unwrap(func_name)
         IN IF task_decorator_re_is_match(trim(lines[idx])) /\ func_name # None
            THEN InvokeLoop(lines, idx + 1,
                     add_command(commands,
                                 TaskCommand(task_name, Direct(<<"invoke", " ">> \o task_name)),
                                 classify_command(task_name)))
            ELSE InvokeLoop(lines, idx + 1, commands)

extract_invoke_commands(content) == InvokeLoop(content, 1, EmptyCommands)

\* the lines of the sample files
PyLines ==
    {<<"@", "nox", ".", "session">>,
     <<"@", "nox", ".", "session", "(", "name=", "'", "lint", "'", ")">>,
     <<"@", "task">>,
     <<"def", " ", "tests", "(", "session", ")", ":">>,
     <<"def", " ", "py", "39", "(", ")", ":">>,
     <<" ", "session", ".", "run", "(", ")">>,
     <<"#", " ", "nox">>,
     <<>>}

InitPy ==
    /\ args \in UNION {[1..k -> PyLines] : k \in 0..MaxLines}
    /\ ret = None
    /\ OnlyCall

ExtractNoxCommands ==
    /\ ret = None
    /\ ret' = Some([scanner |-> "Nox", commands |-> extract_nox_commands(args)])
    /\ UNCHANGED <<args, genVars, pmVars, escVars, shVars, detVars>>

ExtractInvokeCommands ==
    /\ ret = None
    /\ ret' = Some([scanner |-> "Invoke", commands |-> extract_invoke_commands(args)])
    /\ UNCHANGED <<args, genVars, pmVars, escVars, shVars, detVars>>

NextPy == ExtractNoxCommands \/ ExtractInvokeCommands

SpecPy == InitPy /\ [][NextPy]_vars

\* the file holds a decorator of the kind and, at or after it, the
\* definition of a function
Decorated(marker) ==
    \E i \in 1..Len(args) :
        /\ IsPrefixOf(marker, trim(args[i]))
        /\ \E j \in i..Len(args) : func_re_captures(trim(args[j])) # None

\* the synthetic command of a runner, alone in the test bucket
DefaultOnly(tool) ==
    [test |-> <<TaskCommand(<<"default">>, Direct(<<tool>>))>>, build |-> <<>>, other |-> <<>>]

\* C27 as stated: the result of the nox-session scanner and of the
\* invoke-task scanner is never empty, and it is exactly one synthetic
\* "default" command when the file yields no session or task.
C27_BothScannersFallBack ==
    ret # None =>
        /\ AllCommands(ret[1].commands) # <<>>
        /\ ret[1].scanner = "Nox" /\ ~Decorated(<<"@", "nox", ".", "session">>)
              => ret[1].commands = DefaultOnly("nox")
        /\ ret[1].scanner = "Invoke" /\ ~Decorated(<<"@", "task">>)
              => ret[1].commands = DefaultOnly("invoke")

\* C27: the result of the nox-session scanner is never empty, and it is
\* exactly one synthetic "default" command when the file yields no session;
\* the invoke-task scanner has no fallback: its result is empty when the
\* file yields no task, and only then.
C27_OnlyNoxFallsBack ==
    ret # None =>
        /\ ret[1].scanner = "Nox" =>
              /\ AllCommands(ret[1].commands) # <<>>
              /\ ~Decorated(<<"@", "nox", ".", "session">>)
                    => ret[1].commands = DefaultOnly("nox")
        /\ ret[1].scanner = "Invoke" =>
              (AllCommands(ret[1].commands) = <<>> <=> ~Decorated(<<"@", "task">>))

\* a file with a task and no session, scanned for sessions
C27_Witness ==
    /\ ret # None
    /\ ret[1].scanner = "Nox"
    /\ ret[1].commands = DefaultOnly("nox")
    /\ args = <<<<"@", "task">>, <<"def", " ", "tests", "(", "session", ")", ":">>>>

----------------------------------------------------------------------------
(* generation/dev_flake.rs: collect_checks over the task runners in another
   order *)

\* the three nested loops of collect_checks, from the n-th command on
RECURSIVE CollectLoop(_, _, _, _)
CollectLoop(md, n, counts, g) ==
    LET work == WorkList(md.task_runners, 1)
        item == work[n]
        tr == md.task_runners[item.tr]
        rel == relativize_path(Root, tr.path)
        runner_path == IF IsSome(rel) THEN Unwrap(rel) ELSE tr.path
        cmd_info == resolve_task_command(item.cmd, Root).info
        language == infer_check_language(tr.task_runner, cmd_info.required_exec,
                                         primary_language(md))
        built == build_check_spec(item.cmd, cmd_info, language, item.category,
                                  tr.task_runner, slugify_path(runner_path), counts)
    IN IF n > Len(work) THEN g
       ELSE CollectLoop(md, n + 1, built.key_counts, PushGrouped(g, built.spec))

\* the groups collect_checks returns for the metadata
collect_checks(md) == SortGrouped(CollectLoop(md, 1, EmptyFcn, EmptyFcn))

\* the metadata with its task runners in the order p
Reordered(p) ==
    [metadata EXCEPT !.task_runners = [i \in 1..Len(metadata.task_runners) |->
                                          metadata.task_runners[p[i]]]]

\* the keys of the groups, group by group, in their order
KeysIn(g) ==
    [l \in DOMAIN g |-> [c \in DOMAIN g[l] |-> [k \in 1..Len(g[l][c]) |-> g[l][c][k].key]]]

\* C28: whatever the order of the task runners in the metadata, the check
\* keys collect_checks generates are the same, group by group; the checks
\* of every check document are sorted by key, so the sequence of the keys of
\* each document does not depend on the order of the task runners.
C28_KeysIndependentOfRunnerOrder ==
    pc = "done" =>
        /\ collect_checks(metadata) = grouped
        /\ \A p \in Permutations(1..Len(metadata.task_runners)) :
              KeysIn(collect_checks(Reordered(p))) = KeysIn(grouped)
        /\ \A i \in 1..Len(flake.check_files) :
              LET content == flake.check_files[i].content
              IN \A k \in 1..(Len(content) - 1) : ~StrLess(content[k + 1].key, content[k].key)

\* a finished run over two task runners whose commands get their numeric
\* suffixes the other way round in the other order
C28_Witness ==
    /\ pc = "done"
    /\ Len(metadata.task_runners) = 2
    /\ \E p \in Permutations(1..2) : collect_checks(Reordered(p)) # grouped
    /\ \E i \in 1..Len(flake.check_files) : Len(flake.check_files[i].content) >= 2

----------------------------------------------------------------------------
(* detection/mod.rs: detection run on a directory of the tree other than its
   top *)

\* the directories detection is started on
SampleRoots == {Root \o <<"/", "target">>, Root \o <<"/", "d", "/", "build">>, Root \o <<"/", "s">>}

InitR ==
    /\ \E entries \in {e \in SUBSET RootEntriesW : Cardinality(e) <= MaxEntriesW} :
          tree = TreeW("dir", entries, {})
    /\ scope \in {"All", "Root"}
    /\ self_root \in SampleRoots
    /\ run = Runs
    /\ queue = DirectoryIterator_new(self_root)
    /\ paths = <<>>
    /\ results = <<>>
    /\ GenIdle /\ fs = <<>> /\ PmIdle /\ EscIdle /\ ShIdle /\ CallIdle

SpecR == InitR /\ [][NextD]_vars

\* C29: when the name of the root is in the ignore list the walker, in
\* either scope, yields the root and nothing else, whatever the directory
\* holds, and detect_with_scope returns no languages, no versions, no
\* package managers and no task runners.
C29_IgnoredRootYieldsRootOnly ==
    file_name(self_root) \in IGNORED_DIR_BASENAMES =>
        /\ paths \in {<<>>, <<self_root>>}
        /\ paths = <<self_root>> => queue = <<>>
        /\ WalkDone => paths = <<self_root>>
        /\ run > Runs =>
              /\ Len(results) = 1
              /\ \A field \in MetadataFields : results[1][field] = <<>>

\* detect_with_scope has returned for the root d/build, a directory that
\* holds a Cargo.toml and a Python file
C29_Witness ==
    /\ self_root = Root \o <<"/", "d", "/", "build">>
    /\ self_root \in tree.dirs
    /\ Children(self_root) # {}
    /\ run > Runs
    /\ Len(results) = 1

----------------------------------------------------------------------------
(* detection/language.rs, detection/task_runner.rs: directories named like
   the files detection looks for *)

\* the names of the entries of the root; each is a directory, a regular file
\* or absent
SignalNames ==
    {FileName("three", "js"), FileName("tsconfig", "json"), <<"Makefile">>, FileName("a", "py")}

InitN ==
    /\ \E kinds \in [SignalNames -> {"dir", "file", "absent"}] :
          tree = [dirs |-> {Root} \cup {Root \o <<"/">> \o n : n \in {m \in SignalNames : kinds[m] = "dir"}},
                  files |-> {Root \o <<"/">> \o n : n \in {m \in SignalNames : kinds[m] = "file"}},
                  unreadable |-> {}]
    /\ scope \in {"All", "Root"}
    /\ self_root = Root
    /\ run = Runs
    /\ queue = DirectoryIterator_new(self_root)
    /\ paths = <<>>
    /\ results = <<>>
    /\ GenIdle /\ fs = <<>> /\ PmIdle /\ EscIdle /\ ShIdle /\ CallIdle

SpecN == InitN /\ [][NextD]_vars

\* the detection of the ecosystem of the source holds a signal of the source
\* for the path q
HasSignal(languages, q, source, kind) ==
    \E i \in 1..Len(languages) :
        /\ languages[i].language = Language_from(source)
        /\ \E k \in 1..Len(languages[i].sources) :
              languages[i].sources[k] = IF kind = "Strong" THEN Strong(q, source) ELSE Weak(source)

\* C30: every yielded path, a directory as well as a file, whose name is a
\* strong filename or, failing that, whose extension is a weak extension
\* gives a signal for that ecosystem in the result; every task runner of the
\* result is an existing regular file.
C30_SignalsByNameRunnersByFile ==
    [][DetectWithScope =>
        LET md == results'[Len(results')]
        IN /\ \A i \in 1..Len(paths) :
                LET q == paths[i]
                    strong == StrongSource(file_name(q))
                    weak == WeakSource(extension(q))
                IN /\ IsSome(strong) => HasSignal(md.languages, q, Unwrap(strong), "Strong")
                   /\ (~IsSome(strong) /\ IsSome(weak))
                         => HasSignal(md.languages, q, Unwrap(weak), "Weak")
           /\ \A k \in 1..Len(md.task_runners) : md.task_runners[k].path \in tree.files
           /\ \A i \in 1..Len(paths) :
                paths[i] \notin tree.files =>
                    \A k \in 1..Len(md.task_runners) : md.task_runners[k].path # paths[i]]_vars

\* detect_with_scope has returned for a tree whose only entries are the
\* directories three.js, tsconfig.json and Makefile: JavaScript is detected
\* and there is no task runner
C30_Witness ==
    /\ run > Runs
    /\ tree.files = {}
    /\ {Root \o <<"/">> \o FileName("three", "js"), Root \o <<"/">> \o FileName("tsconfig", "json"),
        Root \o <<"/", "Makefile">>} \subseteq tree.dirs
    /\ Len(results) = 1
    /\ Len(results[1].languages) = 1
    /\ results[1].languages[1].language = "JavaScript"
    /\ Len(results[1].languages[1].sources) = 2
    /\ results[1].task_runners = <<>>
====
